---- MODULE Spec2Model ----
(***************************************************************************)
(* A model of the genetic-algorithm trained multi-layer perceptron:        *)
(*   - GeneticAlgorithm (ga.h, ga.cc): the generational loop of evolve(),  *)
(*     with its population, offspring buffer, best-ever tracker and        *)
(*     per-generation histories;                                           *)
(*   - MLP (mlp.h, mlp.cc): the parameter tensors of a layered network,    *)
(*     the flat chromosome codec (encodeChromosome / decodeChromosome),    *)
(*     the forward pass, predict and evaluateAccuracy, and the fitness     *)
(*     closure of createMLPFitnessFunction;                                *)
(*   - Dataset (dataset.cc): the assignment of samples to folds and the    *)
(*     train/test split of a fold;                                         *)
(*   - runExperiment (main.cc): the fold loop of the cross-validation      *)
(*     driver, which builds a network and an optimizer per fold.           *)
(*                                                                         *)
(* Specifications: Spec (an optimizer object), SpecScenario (one run of    *)
(* four individuals without variation), SpecTournament (one tournament on  *)
(* an evaluated population), SpecBreeding (one run with the offspring loop *)
(* taken call by call), SpecCodec (a network's codec), SpecNet (a          *)
(* network's forward pass and a fitness closure bound to it), SpecFolds (a *)
(* Dataset's folds and splits), SpecCV (the fold loop of the driver).      *)
(*                                                                         *)
(* Real numbers are modelled on integer grids.  A gene is an integer       *)
(* number of gene units (1.0 is one unit), a fitness is an integer number  *)
(* of 1/MaxFit steps (MaxFit stands for the fitness 1.0), a rate is a pair *)
(* <<numerator, denominator>>.  Every draw of the random stream is a       *)
(* nondeterministic choice over the values the draw can produce.           *)
(* An input or an activation of the network is an integer number of        *)
(* eighths (One stands for 1.0, Half for 0.5); weights and biases are gene *)
(* units, so bias * One + sum(activation * weight) is exact in eighths.    *)
(***************************************************************************)
EXTENDS Integers, Sequences, FiniteSets, TLC

VARIABLES
    \* ---- GeneticAlgorithm (src/include/ga.h:38-61)
    config,                 \* GAConfig
    chromosome_length,      \* int chromosome_length
    population,             \* std::vector<Individual> population
    best_fitness,           \* double best_fitness
    best_individual,        \* Individual best_individual
    fitness_function,       \* std::function; Unbound when empty
    best_fitness_history,   \* std::vector<double>
    avg_fitness_history,    \* std::vector<double>, entries <<total, size>>
    \* ---- the locals of evolve() and the caller's view of the call
    pc,                     \* where the caller / evolve() stands
    gen,                    \* loop variable of the evolution loop
    offspring,              \* the offspring buffer of the current generation
    thrown,                 \* exception of the last call, "none" if none
    \* ---- history variables of the current evolve() run
    calls,                  \* evolve() calls made on this object
    fitness_calls,          \* fitness_function invocations in this run
    run_max,                \* largest fitness evaluated in this run
    prev_max,               \* population maximum before the last replacement
    \* ---- MLP (src/include/mlp.h:19-30)
    layer_sizes,            \* std::vector<int> layer_sizes
    total_params,           \* int total_params
    weights,                \* weights[layer][from][to]
    biases,                 \* biases[layer][neuron]
    mlp_call,               \* the MLP call made last
    mlp_thrown,             \* its exception, "none" if it returned
    last_chromosome,        \* its argument, when it was setWeights
    encoded,                \* its result, when it was encodeChromosome
    activation_type,        \* ActivationType activation_type
    layer_outputs,          \* layer_outputs[layer][neuron], in eighths
    last_args,              \* the arguments of forward/predict/evaluateAccuracy
    returned,               \* what forward/predict/evaluateAccuracy returned
    \* ---- the data a fitness adapter is bound to (part_001:428-437)
    X_train,                \* const std::vector<std::vector<double>>& X_train
    y_train,                \* const std::vector<int>& y_train
    \* ---- one call of tournamentSelection() seen from outside
    drawn,                  \* the indices Utils::randomInt returned, in order
    selected,               \* the Individual the call returned
    \* ---- the locals of one iteration of evolve()'s offspring loop
    loop_parents,           \* <<parent1, parent2>>, the two selections
    loop_children,          \* <<child1, child2>> of auto [child1, child2]
    cx_draws,               \* what crossover drew: <<gate, swap coins>>
    mut_draws,              \* what the two mutate calls drew, per gene
    \* ---- Dataset (part_000) and the last call made on it
    features,               \* std::vector<std::vector<double>> features
    labels,                 \* std::vector<int> labels
    num_samples,            \* int num_samples
    fold_indices,           \* std::vector<int> fold_indices
    ds_call,                \* the Dataset call made last, the k of the
                            \* last createKFolds and the last test_fold
    \* ---- the locals of runExperiment's fold loop (part_001:461-500)
    train_X,                \* the training partition of the current fold
    train_y,
    test_X,                 \* its test partition
    test_y,
    fold,                   \* loop variable of the fold loop
    fold_pc,                \* where the body of the fold loop stands
    fold_results            \* exp_result.fold_results

ga_vars == <<config, chromosome_length, population, best_fitness,
             best_individual, fitness_function, best_fitness_history,
             avg_fitness_history, pc, gen, offspring, thrown, calls,
             fitness_calls, run_max, prev_max>>

mlp_vars == <<layer_sizes, total_params, weights, biases, mlp_call,
              mlp_thrown, last_chromosome, encoded, activation_type,
              layer_outputs, last_args, returned, X_train, y_train>>

ts_vars == <<drawn, selected>>

br_vars == <<loop_parents, loop_children, cx_draws, mut_draws>>

ds_vars == <<features, labels, num_samples, fold_indices, ds_call>>

cv_vars == <<train_X, train_y, test_X, test_y, fold, fold_pc, fold_results>>

\* What lies outside the state of the optimizer and of the network
obs_vars == <<ts_vars, br_vars, ds_vars, cv_vars>>

vars == <<ga_vars, mlp_vars, obs_vars>>

----------------------------------------------------------------------------
(* Bounds of the model *)

MaxPopulation == 2      \* population_size ranges over 1..MaxPopulation
MaxGenerations == 2     \* max_generations ranges over 0..MaxGenerations
MaxTournament == 2      \* tournament_size ranges over 1..MaxTournament
MaxChromLen == 1        \* chromosome_length ranges over 1..MaxChromLen
MaxCalls == 2           \* evolve() is called at most MaxCalls times
MaxFit == 2             \* fitness grid: k stands for k/MaxFit, MaxFit for 1.0
MaxLayers == 3          \* topologies have 2..MaxLayers layers
MaxWidth == 2           \* of 1..MaxWidth neurons each
MaxParams == 7          \* and at most MaxParams parameters
MaxSamples == 4         \* samples of the largest data set evaluated
MaxData == 4            \* a Dataset holds 1..MaxData samples
MaxFolds == 3           \* createKFolds is called with k in 1..MaxFolds
CVFolds == 2            \* folds of the cross-validation driver (10 in main.cc)

(* Program constants, in gene units *)

InitMin == -1           \* initializePopulation(min_val = -1.0, ...)
InitMax == 1            \* initializePopulation(..., max_val = 1.0)
ClampMin == -5          \* Utils::clamp(..., -5.0, 5.0)
ClampMax == 5

----------------------------------------------------------------------------
(* Helpers *)

RECURSIVE SumSeq(_)
SumSeq(s) == IF s = <<>> THEN 0 ELSE Head(s) + SumSeq(Tail(s))

Min2(a, b) == IF a < b THEN a ELSE b
Max2(a, b) == IF a > b THEN a ELSE b

\* A faulty clamp: only the lower end is enforced
clampLowOnly(value, min, max) == Max2(min, value)

\* Utils::clamp
clamp(value, min, max) == Max2(min, Min2(max, value))

\* A faulty conversion: n * rate rounded up to the next integer
ScaleByRateRoundedUp(n, rate) == (n * rate[1] + rate[2] - 1) \div rate[2]

\* static_cast<int>(n * rate) for a rate <<num, den>> in [0,1]
ScaleByRate(n, rate) == (n * rate[1]) \div rate[2]

\* A faulty gate, (Utils::randomDouble(0.0, 1.0) <= rate): a draw of exactly
\* 0.0 passes a rate of 0
GateOutcomesInclusive(rate) ==
    IF rate[1] >= rate[2] THEN {TRUE} ELSE BOOLEAN

\* The outcomes of (Utils::randomDouble(0.0, 1.0) < rate): the draw lies in
\* [0, 1), so rate 0 never passes and rate 1 always passes.
GateOutcomes(rate) ==
    IF rate[1] <= 0 THEN {FALSE}
    ELSE IF rate[1] >= rate[2] THEN {TRUE}
    ELSE BOOLEAN

----------------------------------------------------------------------------
(* MLP: construction and the chromosome codec                              *)

\* The values a gene, and so a decoded weight or bias, takes in the model
GeneValues == {-1, 1}

\* MLP::MLP, lines 11-14: total_params accumulated over the transitions
RECURSIVE ParamCount(_)
ParamCount(layers) ==
    IF Len(layers) < 2 THEN 0
    ELSE layers[1] * layers[2] + layers[2] + ParamCount(Tail(layers))

\* MLP::MLP, lines 17-27: weights[i][j][k] and biases[i][j], all 0.0
ZeroWeights(layers) ==
    [i \in 1..(Len(layers) - 1) |->
        [j \in 1..layers[i] |-> [k \in 1..layers[i + 1] |-> 0]]]

ZeroBiases(layers) ==
    [i \in 1..(Len(layers) - 1) |-> [j \in 1..layers[i + 1] |-> 0]]

\* The topologies the model constructs networks for
Topologies ==
    {t \in UNION {[1..n -> 1..MaxWidth] : n \in 2..MaxLayers} :
        ParamCount(t) <= MaxParams}

\* A faulty row encoder: the matrix is pushed back column by column
\* (destination neuron outer, source neuron inner)
EncodeRowsColumnMajor(rows) ==
    IF rows = <<>> THEN <<>>
    ELSE LET cols == Len(Head(rows))
             n == Len(rows)
         IN  [p \in 1..(n * cols) |-> rows[((p - 1) % n) + 1][((p - 1) \div n) + 1]]

\* encodeChromosome, lines 86-90: the rows of one weight matrix pushed
\* back one after the other, each row from its first to its last entry
RECURSIVE EncodeRows(_)
EncodeRows(rows) ==
    IF rows = <<>> THEN <<>> ELSE Head(rows) \o EncodeRows(Tail(rows))

\* A faulty encoder: per layer the biases are pushed back before the weights
RECURSIVE EncodeLayersBiasFirst(_, _)
EncodeLayersBiasFirst(ws, bs) ==
    IF ws = <<>> THEN <<>>
    ELSE Head(bs) \o EncodeRows(Head(ws)) \o EncodeLayersBiasFirst(Tail(ws), Tail(bs))

\* encodeChromosome, lines 84-95: per layer the weights, then the biases
RECURSIVE EncodeLayers(_, _)
EncodeLayers(ws, bs) ==
    IF ws = <<>> THEN <<>>
    ELSE EncodeRows(Head(ws)) \o Head(bs) \o EncodeLayers(Tail(ws), Tail(bs))

encodeChromosome(ws, bs) == EncodeLayers(ws, bs)

\* decodeChromosome, lines 110-114: the rows of one weight matrix filled
\* from chromosome[idx++]; the result is <<rows, idx>>
RECURSIVE DecodeRows(_, _, _)
DecodeRows(rows, chromosome, idx) ==
    IF rows = <<>> THEN <<(<<>>), idx>>
    ELSE LET n == Len(Head(rows))
             row == [k \in 1..n |-> chromosome[idx + k]]
             rest == DecodeRows(Tail(rows), chromosome, idx + n)
         IN  <<(<<row>>) \o rest[1], rest[2]>>

\* decodeChromosome, lines 108-119: per layer the weights, then the
\* biases, idx running on; the result is [weights, biases]
RECURSIVE DecodeLayers(_, _, _, _)
DecodeLayers(ws, bs, chromosome, idx) ==
    IF ws = <<>> THEN [weights |-> <<>>, biases |-> <<>>]
    ELSE LET w == DecodeRows(Head(ws), chromosome, idx)
             n == Len(Head(bs))
             b == [j \in 1..n |-> chromosome[w[2] + j]]
             rest == DecodeLayers(Tail(ws), Tail(bs), chromosome, w[2] + n)
         IN  [weights |-> <<w[1]>> \o rest.weights,
              biases |-> <<b>> \o rest.biases]

\* A faulty size check: only a chromosome that is too short is rejected,
\* a longer one is silently truncated
DecodeThrowsShortOnly(chromosome, params) == Len(chromosome) < params

\* decodeChromosome, lines 101-103: the size check that throws
DecodeThrows(chromosome, params) == Len(chromosome) # params

\* decodeChromosome: the tensors after the call; unchanged when it throws
decodeChromosome(ws, bs, chromosome, params) ==
    IF DecodeThrows(chromosome, params)
    THEN [weights |-> ws, biases |-> bs]
    ELSE DecodeLayers(ws, bs, chromosome, 0)

\* The chromosomes a caller passes to setWeights: every chromosome of the
\* right length, and chromosomes of a wrong length (empty, one gene short,
\* one gene long) filled with one value
Chromosomes(params) ==
    [1..params -> GeneValues]
    \cup {[i \in 1..n |-> v] :
            n \in {0, params - 1, params + 1} \cap Nat, v \in GeneValues}

----------------------------------------------------------------------------
(* MLP: the forward pass, the class decision and the accuracy              *)

\* 1.0 and 0.5 in eighths
One == 8
Half == 4

ActivationTypes == {"SIGMOID", "TANH", "RELU"}

\* MLP::sigmoid, 1.0 / (1.0 + exp(-x)), on the grid of eighths: 0.5 at 0,
\* above 0.5 exactly for x > 0, non-decreasing, inside (0, 1), and
\* sigmoid(-x) = 1.0 - sigmoid(x)
SigmoidOfPositive(x) == IF x <= 6 THEN 5 ELSE IF x <= 11 THEN 6 ELSE 7

sigmoid(x) ==
    IF x = 0 THEN Half
    ELSE IF x > 0 THEN SigmoidOfPositive(x)
    ELSE One - SigmoidOfPositive(-x)

\* MLP::tanh_activation, std::tanh(x), on the grid of eighths: 0 at 0, odd,
\* non-decreasing, inside (-1, 1)
TanhOfPositive(x) ==
    IF x <= 3 THEN x
    ELSE IF x <= 5 THEN 4
    ELSE IF x <= 6 THEN 5
    ELSE IF x <= 9 THEN 6
    ELSE 7

tanh_activation(x) ==
    IF x = 0 THEN 0
    ELSE IF x > 0 THEN TanhOfPositive(x)
    ELSE 0 - TanhOfPositive(-x)

\* MLP::relu, std::max(0.0, x)
relu(x) == Max2(0, x)

\* MLP::activate: the switch over activation_type, sigmoid by default
activate(x, act_type) ==
    CASE act_type = "SIGMOID" -> sigmoid(x)
      [] act_type = "TANH" -> tanh_activation(x)
      [] act_type = "RELU" -> relu(x)
      [] OTHER -> sigmoid(x)

\* forward, lines 137-141: sum = biases[layer][j] + the sum over i of
\* layer_outputs[layer][i] * weights[layer][i][j], the terms from i on
RECURSIVE WeightedSum(_, _, _, _)
WeightedSum(prev, w, j, i) ==
    IF i > Len(prev) THEN 0
    ELSE prev[i] * w[i][j] + WeightedSum(prev, w, j, i + 1)

NeuronSum(prev, w, b, j) == b[j] * One + WeightedSum(prev, w, j, 1)

\* A faulty choice of activation: the last layer goes through activate()
\* like every other layer
LayerActivationConfigured(is_last, sum, act_type) == activate(sum, act_type)

\* forward, lines 145-149: sigmoid on the last layer, activate() elsewhere
LayerActivation(is_last, sum, act_type) ==
    IF is_last THEN sigmoid(sum) ELSE activate(sum, act_type)

\* forward, lines 136-150: the neurons of one layer from neuron j on, each
\* the activation of its sum
RECURSIVE LayerOutput(_, _, _, _, _, _)
LayerOutput(prev, w, b, j, is_last, act_type) ==
    IF j > Len(b) THEN <<>>
    ELSE <<LayerActivation(is_last, NeuronSum(prev, w, b, j), act_type)>>
         \o LayerOutput(prev, w, b, j + 1, is_last, act_type)

\* forward, lines 135-151: the layers after prev, one after the other,
\* each computed from the layer before it
RECURSIVE ForwardLayers(_, _, _, _)
ForwardLayers(ws, bs, act_type, prev) ==
    IF ws = <<>> THEN <<>>
    ELSE LET out == LayerOutput(prev, Head(ws), Head(bs), 1,
                                Len(ws) = 1, act_type)
         IN  <<out>> \o ForwardLayers(Tail(ws), Tail(bs), act_type, out)

\* forward, lines 127-129: the size check that throws
ForwardThrows(input, sizes) == Len(input) # sizes[1]

\* A faulty forward: the input is stored before its size is checked
forwardStoresFirst(ws, bs, act_type, outputs, input, sizes) ==
    IF ForwardThrows(input, sizes)
    THEN [outputs EXCEPT ![1] = input]
    ELSE <<input>> \o ForwardLayers(ws, bs, act_type, input)

\* forward: layer_outputs after the call; unchanged when it throws.  The
\* value returned is the last entry, layer_outputs.back().
forward(ws, bs, act_type, outputs, input, sizes) ==
    IF ForwardThrows(input, sizes)
    THEN outputs
    ELSE <<input>> \o ForwardLayers(ws, bs, act_type, input)

\* A faulty threshold: an output of exactly 0.5 is classified as 0
ThresholdClassStrict(output) == IF output[1] > Half THEN 1 ELSE 0

\* predict, lines 160-162: a single output against 0.5
ThresholdClass(output) == IF output[1] >= Half THEN 1 ELSE 0

\* A faulty scan: a later unit replaces the maximum when it is equal
RECURSIVE MaxIndexScanLast(_, _, _)
MaxIndexScanLast(output, i, max_idx) ==
    IF i > Len(output) THEN max_idx
    ELSE MaxIndexScanLast(output, i + 1,
            IF output[i] >= output[max_idx] THEN i ELSE max_idx)

\* predict, lines 165-171: the scan from the second unit on, a unit
\* replacing the maximum only when it is strictly greater
RECURSIVE MaxIndexScan(_, _, _)
MaxIndexScan(output, i, max_idx) ==
    IF i > Len(output) THEN max_idx
    ELSE MaxIndexScan(output, i + 1,
            IF output[i] > output[max_idx] THEN i ELSE max_idx)

\* predict, after forward: the class of an output vector (classes and
\* unit indices count from 0)
ClassOf(output) ==
    IF Len(output) = 1 THEN ThresholdClass(output)
    ELSE MaxIndexScan(output, 2, 1) - 1

\* A faulty comparison: a sample counts when its class differs from the label
HitOnMismatch(class, label) == IF class # label THEN 1 ELSE 0

\* evaluateAccuracy, lines 182-185: a sample counts when predict(X[i])
\* equals y[i]
Hit(class, label) == IF class = label THEN 1 ELSE 0

\* evaluateAccuracy, lines 180-186: predict on the samples in order,
\* counting in correct those whose class equals the label; a sample of a
\* wrong size throws out of the loop.  The result is layer_outputs after
\* the loop, the count, and whether the loop threw.
RECURSIVE PredictSamples(_, _, _, _, _, _, _, _)
PredictSamples(ws, bs, act_type, outputs, X, y, sizes, correct) ==
    IF X = <<>>
    THEN [outputs |-> outputs, correct |-> correct, thrown |-> FALSE]
    ELSE IF ForwardThrows(Head(X), sizes)
    THEN [outputs |-> forward(ws, bs, act_type, outputs, Head(X), sizes),
          correct |-> correct, thrown |-> TRUE]
    ELSE LET after == forward(ws, bs, act_type, outputs, Head(X), sizes)
         IN  PredictSamples(ws, bs, act_type, after, Tail(X), Tail(y), sizes,
                correct + Hit(ClassOf(after[Len(after)]), Head(y)))

\* evaluateAccuracy, lines 176-178: the size check that throws
AccuracyThrows(X, y) == Len(X) # Len(y)

\* evaluateAccuracy, line 188: the value returned after the loop,
\* correct / X.size(), as <<correct, X.size()>>
AccuracyResult(r, size) ==
    [outputs |-> r.outputs, thrown |-> r.thrown,
     value |-> IF r.thrown THEN <<>> ELSE <<r.correct, size>>]

\* evaluateAccuracy: layer_outputs after the call, whether it threw, and
\* the value returned
evaluateAccuracy(ws, bs, act_type, outputs, X, y, sizes) ==
    IF AccuracyThrows(X, y)
    THEN [outputs |-> outputs, thrown |-> TRUE, value |-> <<>>]
    ELSE AccuracyResult(
            PredictSamples(ws, bs, act_type, outputs, X, y, sizes, 0), Len(X))

\* A faulty adapter: the network is evaluated as it stands, the chromosome
\* is only checked for its length
createMLPFitnessFunctionNoDecode(ws, bs, act_type, outputs, chromosome, params, sizes, X, y) ==
    IF DecodeThrows(chromosome, params)
    THEN [weights |-> ws, biases |-> bs, outputs |-> outputs,
          thrown |-> TRUE, value |-> <<>>]
    ELSE LET r == evaluateAccuracy(ws, bs, act_type, outputs, X, y, sizes)
         IN  [weights |-> ws, biases |-> bs, outputs |-> r.outputs,
              thrown |-> r.thrown, value |-> r.value]

\* The network after the closure's two calls: the parameters setWeights
\* decoded, and what evaluateAccuracy left and returned
AfterClosure(d, r) ==
    [weights |-> d.weights, biases |-> d.biases,
     outputs |-> r.outputs, thrown |-> r.thrown, value |-> r.value]

\* createMLPFitnessFunction, line 435: mlp.evaluateAccuracy(X_train,
\* y_train) on the parameters d that setWeights decoded
AccuracyOfDecoded(d, act_type, outputs, sizes, X, y) ==
    AfterClosure(d, evaluateAccuracy(d.weights, d.biases, act_type, outputs,
                                     X, y, sizes))

\* createMLPFitnessFunction, lines 433-436: the closure's body,
\* mlp.setWeights(chromosome) and then mlp.evaluateAccuracy(X_train,
\* y_train); an exception of setWeights leaves the closure at once
createMLPFitnessFunction(ws, bs, act_type, outputs, chromosome, params, sizes, X, y) ==
    IF DecodeThrows(chromosome, params)
    THEN [weights |-> ws, biases |-> bs, outputs |-> outputs,
          thrown |-> TRUE, value |-> <<>>]
    ELSE AccuracyOfDecoded(decodeChromosome(ws, bs, chromosome, params),
                           act_type, outputs, sizes, X, y)

\* The values an input feature takes in the model: 0.0 and 1.0
InputValues == {0, One}

\* The inputs of the right length n0
Inputs(n0) == [1..n0 -> InputValues]

\* Inputs of a wrong length: one feature short, one feature long
WrongInputs(n0) == {[i \in 1..n |-> One] : n \in {n0 - 1, n0 + 1}}

\* The labels of the classification task
Labels == {0, 1}

\* n samples of n0 features whose features alternate between 1.0 and 0.0
Samples(n0, n) ==
    [i \in 1..n |-> [k \in 1..n0 |-> IF (i + k) % 2 = 0 THEN One ELSE 0]]

\* The labellings of MaxSamples samples: all 1, all 0, alternating from 1,
\* alternating from 0, all 1 but the last, all 0 but the last
Labellings ==
    {[i \in 1..MaxSamples |-> 1],
     [i \in 1..MaxSamples |-> 0],
     [i \in 1..MaxSamples |-> i % 2],
     [i \in 1..MaxSamples |-> (i + 1) % 2],
     [i \in 1..MaxSamples |-> IF i = MaxSamples THEN 0 ELSE 1],
     [i \in 1..MaxSamples |-> IF i = MaxSamples THEN 1 ELSE 0]}

\* The data evaluateAccuracy is called with: MaxSamples samples under each
\* of the labellings, no data at all, X and y of different lengths, and a
\* sample of a wrong length after a good one
EvalData(n0) ==
    {<<Samples(n0, MaxSamples), y>> : y \in Labellings}
    \cup {<<(<<>>), (<<>>)>>,
          <<Samples(n0, 1), (<<>>)>>,
          <<Samples(n0, 1), (<<0, 0>>)>>}
    \cup {<<Samples(n0, 1) \o <<w>>, (<<0, 0>>)>> : w \in WrongInputs(n0)}

\* The training data a fitness adapter is bound to
TrainSets(n0) == {<<Samples(n0, 2), (<<0, 1>>)>>}

\* The networks the forward pass is exercised on, <<layers, act_type>>:
\* two layers under every activation type, a hidden layer under every
\* activation type, two inputs, and two output units
NetConfigs ==
    ({<<1, 1>>, <<1, 1, 1>>} \X ActivationTypes)
    \cup ({<<2, 1>>, <<1, 2>>} \X {"SIGMOID"})

----------------------------------------------------------------------------
(* Individuals, configurations and fitness functions *)

\* struct Individual {chromosome, fitness}
Individual(chrom, fit) == [chromosome |-> chrom, fitness |-> fit]

\* Individual(): empty chromosome, fitness 0.0
DefaultIndividual == Individual(<<>>, 0)

Rates == {<<0, 1>>, <<1, 2>>, <<1, 1>>}
CrossoverRates == {<<0, 1>>, <<1, 2>>}
MutationRates == {<<0, 1>>, <<1, 2>>}
MutationStrengths == {1}

\* struct GAConfig (verbose has no effect on the state and is left out)
Configs ==
    [population_size : 1..MaxPopulation,
     max_generations : 0..MaxGenerations,
     crossover_rate : CrossoverRates,
     mutation_rate : MutationRates,
     mutation_strength : MutationStrengths,
     elitism_rate : Rates,
     tournament_size : 1..MaxTournament]

\* The empty std::function, and the fitness functions a caller may bind.
\* Each is a deterministic map from a chromosome to a fitness in [0, 1]:
\*   "zero"  0 for every chromosome,
\*   "ramp"  the sum of the genes, cut to [0, 1] (in steps of 1/MaxFit).
Unbound == "unbound"
FitnessFunctions == {"zero", "ramp"}

\* The fitness an accuracy correct / size stands for, in steps of 1/MaxFit
FitnessOfAccuracy(value) == (value[1] * MaxFit) \div value[2]

\* The closure of createMLPFitnessFunction bound as fitness function
Adapter == "accuracy"

FitnessValue(f, chrom) ==
    CASE f = "zero" -> 0
      [] f = "ramp" -> clamp(SumSeq(chrom), 0, MaxFit)
      [] f = "loss" -> MaxFit * (SumSeq(chrom) - 1)
      [] f = Adapter ->
            FitnessOfAccuracy(
                createMLPFitnessFunction(weights, biases, activation_type,
                    layer_outputs, chrom, total_params, layer_sizes,
                    X_train, y_train).value)

\* A caller may also bind a function whose values are not accuracies:
\*   "loss"  the sum of the genes minus 1.0, which is 0 or negative for
\*           the genes of an initial population.
AnyFitnessFunctions == FitnessFunctions \cup {"loss"}

----------------------------------------------------------------------------
(* GeneticAlgorithm: the operations as functions of their inputs and of    *)
(* the random draws they consume                                           *)

\* GeneticAlgorithm::GeneticAlgorithm: population_size individuals, each
\* with a zeroed chromosome of chromosome_length genes and fitness 0.0
ConstructedPopulation(cfg, len) ==
    [i \in 1..cfg.population_size |->
        Individual([g \in 1..len |-> 0], 0)]

\* Utils::randomVector(size, min, max): every gene drawn from [min, max]
randomVector(size, min, max) == [1..size -> min..max]

\* initializePopulation: every individual gets a fresh random chromosome
\* and fitness 0.0; the set of populations the draws can produce
initializePopulation(pop, len) ==
    {[i \in 1..Len(pop) |-> Individual(c[i], 0)] :
        c \in [1..Len(pop) -> randomVector(len, InitMin, InitMax)]}

\* std::max_element under (a.fitness < b.fitness): the first maximum
MaxElementIndex(pop) ==
    CHOOSE i \in 1..Len(pop) :
        /\ \A j \in 1..Len(pop) : pop[j].fitness <= pop[i].fitness
        /\ \A j \in 1..(i - 1) : pop[j].fitness < pop[i].fitness

\* A faulty evaluateFitness: the best-ever individual is overwritten by
\* the population's best without comparing against the recorded best
evaluateFitnessAlwaysReplace(pop, f, bf, bi) ==
    LET evald == [i \in 1..Len(pop) |->
                    Individual(pop[i].chromosome, FitnessValue(f, pop[i].chromosome))]
        best_it == evald[MaxElementIndex(evald)]
    IN  [population |-> evald,
         best_fitness |-> best_it.fitness,
         best_individual |-> best_it]

\* evaluateFitness: evaluate every individual, then update the best-ever
\* individual when the population's best is strictly better
evaluateFitness(pop, f, bf, bi) ==
    LET evald == [i \in 1..Len(pop) |->
                    Individual(pop[i].chromosome, FitnessValue(f, pop[i].chromosome))]
        best_it == evald[MaxElementIndex(evald)]
    IN  [population |-> evald,
         best_fitness |-> IF best_it.fitness > bf THEN best_it.fitness ELSE bf,
         best_individual |-> IF best_it.fitness > bf THEN best_it ELSE bi]

\* tournamentSelection: scan the drawn indices, keep the first strictly
\* fitter individual, starting from a best of fitness -1.0
RECURSIVE TournamentScan(_, _, _)
TournamentScan(pop, draws, best) ==
    IF draws = <<>> THEN best
    ELSE TournamentScan(pop, Tail(draws),
            IF pop[Head(draws)].fitness > best.fitness
            THEN pop[Head(draws)] ELSE best)

tournamentSelection(pop, draws) ==
    TournamentScan(pop, draws, Individual(<<>>, -MaxFit))

TournamentResults(pop, k) ==
    {tournamentSelection(pop, d) : d \in [1..k -> 1..Len(pop)]}

\* A faulty crossover: a gene whose coin falls below 0.5 is copied from
\* parent2 into child1, and child2 keeps its own gene
crossoverOneWay(parent1, parent2, gate, swap, len) ==
    IF gate
    THEN <<[parent1 EXCEPT !.chromosome =
                [i \in 1..len |-> IF swap[i] THEN parent2.chromosome[i]
                                  ELSE parent1.chromosome[i]]],
           parent2>>
    ELSE <<parent1, parent2>>

\* crossover: the children start as copies of the parents (fitness
\* included); when the gate fires, every gene whose coin falls below 0.5 is
\* exchanged
crossover(parent1, parent2, gate, swap, len) ==
    IF gate
    THEN <<[parent1 EXCEPT !.chromosome =
                [i \in 1..len |-> IF swap[i] THEN parent2.chromosome[i]
                                  ELSE parent1.chromosome[i]]],
           [parent2 EXCEPT !.chromosome =
                [i \in 1..len |-> IF swap[i] THEN parent1.chromosome[i]
                                  ELSE parent2.chromosome[i]]]>>
    ELSE <<parent1, parent2>>

CrossoverResults(parent1, parent2, cfg, len) ==
    {crossover(parent1, parent2, g, sw, len) :
        g \in GateOutcomes(cfg.crossover_rate), sw \in [1..len -> BOOLEAN]}

\* The values Utils::randomDouble(-mutation_strength, mutation_strength)
\* is taken to produce: the two ends of the interval and its middle
NoiseValues(strength) == {-strength, 0, strength}

\* The draws mutate makes for one gene: <<gate, noise>>, the noise drawn
\* from [-mutation_strength, mutation_strength] only when the gate fires
MutationDraws(cfg) ==
    {<<g, n>> : g \in GateOutcomes(cfg.mutation_rate),
                n \in NoiseValues(cfg.mutation_strength)}

\* A faulty mutate: the noise is added and the gene is not clamped
mutateUnclamped(individual, draws, len) ==
    [individual EXCEPT !.chromosome =
        [i \in 1..len |->
            IF draws[i][1]
            THEN individual.chromosome[i] + draws[i][2]
            ELSE individual.chromosome[i]]]

\* mutate: a gene whose gate fires gets noise added and is clamped
mutate(individual, draws, len) ==
    [individual EXCEPT !.chromosome =
        [i \in 1..len |->
            IF draws[i][1]
            THEN clamp(individual.chromosome[i] + draws[i][2], ClampMin, ClampMax)
            ELSE individual.chromosome[i]]]

MutateResults(individual, cfg, len) ==
    {mutate(individual, d, len) : d \in [1..len -> MutationDraws(cfg)]}

\* A faulty sort: the sequence is left in the order it came in
SortResultsUnsorted(s) == {s}

\* std::sort under (a.fitness > b.fitness): descending by fitness; the
\* order of individuals of equal fitness is unspecified, so every sorted
\* arrangement is a possible outcome
SortResults(s) ==
    LET n == Len(s)
        perms == {p \in [1..n -> 1..n] : \A i, j \in 1..n : i # j => p[i] # p[j]}
    IN  {[i \in 1..n |-> s[p[i]]] :
            p \in {q \in perms :
                    \A i \in 1..(n - 1) : s[q[i]].fitness >= s[q[i + 1]].fitness}}

\* A faulty replacePopulation: every offspring is appended after the
\* elites, without stopping at population_size
NewPopulationUncapped(sorted_pop, sorted_off, cfg) ==
    LET elites == ScaleByRate(cfg.population_size, cfg.elitism_rate)
        n_elite == Max2(0, Min2(elites, Len(sorted_pop)))
    IN  SubSeq(sorted_pop, 1, n_elite) \o sorted_off

\* replacePopulation after the two sorts: the elites of the sorted
\* population, then sorted offspring until population_size is reached
NewPopulation(sorted_pop, sorted_off, cfg) ==
    LET elites == ScaleByRate(cfg.population_size, cfg.elitism_rate)
        n_elite == Max2(0, Min2(elites, Len(sorted_pop)))
        n_off == Max2(0, Min2(Len(sorted_off), cfg.population_size - n_elite))
    IN  SubSeq(sorted_pop, 1, n_elite) \o SubSeq(sorted_off, 1, n_off)

replacePopulation(pop, off, cfg) ==
    {NewPopulation(sp, so, cfg) : sp \in SortResults(pop), so \in SortResults(off)}

\* total_fitness of evolve()'s statistics
TotalFitness(pop) == SumSeq([i \in 1..Len(pop) |-> pop[i].fitness])

\* the largest fitness held by a non-empty sequence of individuals
MaxFitnessOf(pop) == pop[MaxElementIndex(pop)].fitness

----------------------------------------------------------------------------
(* MLP state while the optimizer alone is exercised: a constructed         *)
(* network of topology <<1, 1>> that nothing touches                       *)

MLPUntouched ==
    /\ layer_sizes = <<1, 1>>
    /\ total_params = 2
    /\ weights = <<(<<(<<0>>)>>)>>
    /\ biases = <<(<<0>>)>>
    /\ mlp_call = "MLP"
    /\ mlp_thrown = "none"
    /\ last_chromosome = <<>>
    /\ encoded = <<>>
    /\ activation_type = "SIGMOID"
    /\ layer_outputs = <<(<<0>>), (<<0>>)>>
    /\ last_args = <<>>
    /\ returned = <<>>
    /\ X_train = <<>>
    /\ y_train = <<>>

\* No call of tournamentSelection() is looked at
TournamentUnobserved ==
    /\ drawn = <<>>
    /\ selected = DefaultIndividual

\* No iteration of the offspring loop is looked at step by step
BreedingUnobserved ==
    /\ loop_parents = <<>>
    /\ loop_children = <<>>
    /\ cx_draws = <<>>
    /\ mut_draws = <<>>

\* A Dataset that was constructed and never loaded (part_000:4)
DatasetUnused ==
    /\ features = <<>>
    /\ labels = <<>>
    /\ num_samples = 0
    /\ fold_indices = <<>>
    /\ ds_call = [name |-> "Dataset", k |-> 0, test_fold |-> 0]

\* No fold loop is running
DriverUnused ==
    /\ train_X = <<>>
    /\ train_y = <<>>
    /\ test_X = <<>>
    /\ test_y = <<>>
    /\ fold = 0
    /\ fold_pc = "none"
    /\ fold_results = <<>>

----------------------------------------------------------------------------
(* GeneticAlgorithm: the state machine of an optimizer object              *)

\* State after GeneticAlgorithm(chrom_length, cfg)
InitGA ==
    /\ config \in Configs
    /\ chromosome_length \in 1..MaxChromLen
    /\ population = ConstructedPopulation(config, chromosome_length)
    /\ best_fitness = 0
    /\ best_individual = DefaultIndividual
    /\ fitness_function = Unbound
    /\ best_fitness_history = <<>>
    /\ avg_fitness_history = <<>>
    /\ pc = "idle"
    /\ gen = 0
    /\ offspring = <<>>
    /\ thrown = "none"
    /\ calls = 0
    /\ fitness_calls = 0
    /\ run_max = 0
    /\ prev_max = 0

\* setFitnessFunction(func), called between runs
SetFitnessFunction ==
    /\ pc \in {"idle", "done"}
    /\ \E f \in FitnessFunctions : fitness_function' = f
    /\ UNCHANGED <<config, chromosome_length, population, best_fitness,
                   best_individual, best_fitness_history, avg_fitness_history,
                   pc, gen, offspring, thrown, calls, fitness_calls,
                   run_max, prev_max>>

\* A faulty evolve() with no fitness function bound: the check is missing,
\* so the population is initialised before the first call of the empty
\* function throws
EvolveThrowsAfterInit ==
    /\ pc \in {"idle", "done"}
    /\ calls < MaxCalls
    /\ fitness_function = Unbound
    /\ population' \in initializePopulation(population, chromosome_length)
    /\ thrown' = "bad_function_call"
    /\ calls' = calls + 1
    /\ UNCHANGED <<config, chromosome_length, best_fitness,
                   best_individual, fitness_function, best_fitness_history,
                   avg_fitness_history, pc, gen, offspring, fitness_calls,
                   run_max, prev_max>>

\* evolve() with no fitness function bound: throws before anything else
EvolveThrows ==
    /\ pc \in {"idle", "done"}
    /\ calls < MaxCalls
    /\ fitness_function = Unbound
    /\ thrown' = "runtime_error"
    /\ calls' = calls + 1
    /\ UNCHANGED <<config, chromosome_length, population, best_fitness,
                   best_individual, fitness_function, best_fitness_history,
                   avg_fitness_history, pc, gen, offspring, fitness_calls,
                   run_max, prev_max>>

\* evolve() up to the evolution loop: initializePopulation, evaluateFitness
EvolveBegin ==
    /\ pc \in {"idle", "done"}
    /\ calls < MaxCalls
    /\ fitness_function # Unbound
    /\ \E pop \in initializePopulation(population, chromosome_length) :
        LET r == evaluateFitness(pop, fitness_function, best_fitness, best_individual)
        IN  /\ population' = r.population
            /\ best_fitness' = r.best_fitness
            /\ best_individual' = r.best_individual
            /\ fitness_calls' = Len(pop)
            /\ run_max' = MaxFitnessOf(r.population)
    /\ pc' = "breeding"
    /\ gen' = 0
    /\ offspring' = <<>>
    /\ thrown' = "none"
    /\ calls' = calls + 1
    /\ prev_max' = 0
    /\ UNCHANGED <<config, chromosome_length, fitness_function,
                   best_fitness_history, avg_fitness_history>>

\* One iteration of the offspring loop: two tournaments, crossover, two
\* mutations; child1 is appended, child2 only while the buffer has room
Breed ==
    /\ pc = "breeding"
    /\ gen < config.max_generations
    /\ Len(offspring) < config.population_size
    /\ \E parent1 \in TournamentResults(population, config.tournament_size),
          parent2 \in TournamentResults(population, config.tournament_size) :
        \E children \in CrossoverResults(parent1, parent2, config, chromosome_length) :
            \E child1 \in MutateResults(children[1], config, chromosome_length),
               child2 \in MutateResults(children[2], config, chromosome_length) :
                offspring' =
                    IF Len(offspring) + 1 < config.population_size
                    THEN offspring \o <<child1, child2>>
                    ELSE Append(offspring, child1)
    /\ UNCHANGED <<config, chromosome_length, population, best_fitness,
                   best_individual, fitness_function, best_fitness_history,
                   avg_fitness_history, pc, gen, thrown, calls, fitness_calls,
                   run_max, prev_max>>

\* A faulty evaluation pass: the offspring keep the fitness they carry
EvaluateOffspringSkipped ==
    /\ pc = "breeding"
    /\ gen < config.max_generations
    /\ Len(offspring) >= config.population_size
    /\ offspring' = offspring
    /\ fitness_calls' = fitness_calls + Len(offspring)
    /\ run_max' = Max2(run_max, MaxFitnessOf(offspring'))
    /\ pc' = "evaluated"
    /\ UNCHANGED <<config, chromosome_length, population, best_fitness,
                   best_individual, fitness_function, best_fitness_history,
                   avg_fitness_history, gen, thrown, calls, prev_max>>

\* The offspring evaluation pass: the fitness function on every offspring
EvaluateOffspring ==
    /\ pc = "breeding"
    /\ gen < config.max_generations
    /\ Len(offspring) >= config.population_size
    /\ offspring' = [i \in 1..Len(offspring) |->
            Individual(offspring[i].chromosome,
                       FitnessValue(fitness_function, offspring[i].chromosome))]
    /\ fitness_calls' = fitness_calls + Len(offspring)
    /\ run_max' = Max2(run_max, MaxFitnessOf(offspring'))
    /\ pc' = "evaluated"
    /\ UNCHANGED <<config, chromosome_length, population, best_fitness,
                   best_individual, fitness_function, best_fitness_history,
                   avg_fitness_history, gen, thrown, calls, prev_max>>

\* The rest of the generation: replacePopulation, then one entry appended
\* to each history
Replace ==
    /\ pc = "evaluated"
    /\ \E new_population \in replacePopulation(population, offspring, config) :
        /\ population' = new_population
        /\ avg_fitness_history' =
              Append(avg_fitness_history,
                     <<TotalFitness(new_population), Len(new_population)>>)
    /\ best_fitness_history' = Append(best_fitness_history, best_fitness)
    /\ prev_max' = MaxFitnessOf(population)
    /\ gen' = gen + 1
    /\ offspring' = <<>>
    /\ pc' = "breeding"
    /\ UNCHANGED <<config, chromosome_length, best_fitness, best_individual,
                   fitness_function, thrown, calls, fitness_calls, run_max>>

\* A faulty loop exit: evolve() also returns as soon as the population
\* holds an individual of fitness 1.0
EvolveReturnOnPerfect ==
    /\ pc = "breeding"
    /\ offspring = <<>>
    /\ \/ gen >= config.max_generations
       \/ MaxFitnessOf(population) = MaxFit
    /\ pc' = "done"
    /\ UNCHANGED <<config, chromosome_length, population, best_fitness,
                   best_individual, fitness_function, best_fitness_history,
                   avg_fitness_history, gen, offspring, thrown, calls,
                   fitness_calls, run_max, prev_max>>

\* The evolution loop ends and evolve() returns
EvolveReturn ==
    /\ pc = "breeding"
    /\ gen >= config.max_generations
    /\ pc' = "done"
    /\ UNCHANGED <<config, chromosome_length, population, best_fitness,
                   best_individual, fitness_function, best_fitness_history,
                   avg_fitness_history, gen, offspring, thrown, calls,
                   fitness_calls, run_max, prev_max>>

Init ==
    InitGA /\ MLPUntouched /\ TournamentUnobserved /\ BreedingUnobserved
        /\ DatasetUnused /\ DriverUnused

Next ==
    \/ SetFitnessFunction /\ UNCHANGED <<mlp_vars, obs_vars>>
    \/ EvolveThrows /\ UNCHANGED <<mlp_vars, obs_vars>>
    \/ EvolveBegin /\ UNCHANGED <<mlp_vars, obs_vars>>
    \/ Breed /\ UNCHANGED <<mlp_vars, obs_vars>>
    \/ EvaluateOffspring /\ UNCHANGED <<mlp_vars, obs_vars>>
    \/ Replace /\ UNCHANGED <<mlp_vars, obs_vars>>
    \/ EvolveReturn /\ UNCHANGED <<mlp_vars, obs_vars>>

Spec == Init /\ [][Next]_vars

\* The configuration of the scenario without variation: 4 individuals, one
\* generation, half of them elites, tournaments of one draw, crossover and
\* mutation switched off
ScenarioConfig ==
    [population_size |-> 4, max_generations |-> 1,
     crossover_rate |-> <<0, 1>>, mutation_rate |-> <<0, 1>>,
     mutation_strength |-> 1, elitism_rate |-> <<1, 2>>,
     tournament_size |-> 1]

\* State after GeneticAlgorithm(1, ScenarioConfig)
InitScenario ==
    /\ config = ScenarioConfig
    /\ chromosome_length = 1
    /\ population = ConstructedPopulation(config, chromosome_length)
    /\ best_fitness = 0
    /\ best_individual = DefaultIndividual
    /\ fitness_function = Unbound
    /\ best_fitness_history = <<>>
    /\ avg_fitness_history = <<>>
    /\ pc = "idle"
    /\ gen = 0
    /\ offspring = <<>>
    /\ thrown = "none"
    /\ calls = 0
    /\ fitness_calls = 0
    /\ run_max = 0
    /\ prev_max = 0
    /\ MLPUntouched
    /\ TournamentUnobserved
    /\ BreedingUnobserved
    /\ DatasetUnused
    /\ DriverUnused

\* The caller of the scenario calls evolve() once on the fresh optimizer
NextScenario ==
    \/ SetFitnessFunction /\ UNCHANGED <<mlp_vars, obs_vars>>
    \/ calls = 0 /\ EvolveThrows /\ UNCHANGED <<mlp_vars, obs_vars>>
    \/ calls = 0 /\ EvolveBegin /\ UNCHANGED <<mlp_vars, obs_vars>>
    \/ Breed /\ UNCHANGED <<mlp_vars, obs_vars>>
    \/ EvaluateOffspring /\ UNCHANGED <<mlp_vars, obs_vars>>
    \/ Replace /\ UNCHANGED <<mlp_vars, obs_vars>>
    \/ EvolveReturn /\ UNCHANGED <<mlp_vars, obs_vars>>

SpecScenario == InitScenario /\ [][NextScenario]_vars

\* The configurations of the optimizers a single tournament is looked at on
TournamentConfigs ==
    {c \in Configs : /\ c.max_generations = 1
                     /\ c.crossover_rate = <<0, 1>>
                     /\ c.mutation_rate = <<0, 1>>
                     /\ c.elitism_rate = <<0, 1>>}

\* State inside evolve() at the top of the evolution loop, after
\* GeneticAlgorithm(1, cfg), setFitnessFunction(f), initializePopulation
\* and evaluateFitness
InitTournament ==
    /\ \E cfg \in TournamentConfigs, f \in AnyFitnessFunctions :
        \E pop \in initializePopulation(ConstructedPopulation(cfg, 1), 1) :
            \E r \in {evaluateFitness(pop, f, 0, DefaultIndividual)} :
                /\ config = cfg
                /\ fitness_function = f
                /\ population = r.population
                /\ best_fitness = r.best_fitness
                /\ best_individual = r.best_individual
                /\ fitness_calls = Len(pop)
                /\ run_max = MaxFitnessOf(r.population)
    /\ chromosome_length = 1
    /\ best_fitness_history = <<>>
    /\ avg_fitness_history = <<>>
    /\ pc = "breeding"
    /\ gen = 0
    /\ offspring = <<>>
    /\ thrown = "none"
    /\ calls = 1
    /\ prev_max = 0
    /\ MLPUntouched
    /\ TournamentUnobserved
    /\ BreedingUnobserved
    /\ DatasetUnused
    /\ DriverUnused

\* One call of tournamentSelection(): tournament_size draws of
\* Utils::randomInt(0, population.size() - 1), then the scan
TournamentSelection ==
    /\ pc = "breeding"
    /\ \E d \in [1..config.tournament_size -> 1..Len(population)] :
        /\ drawn' = d
        /\ selected' = tournamentSelection(population, d)
    /\ UNCHANGED <<ga_vars, mlp_vars, br_vars, ds_vars, cv_vars>>

NextTournament == TournamentSelection

SpecTournament == InitTournament /\ [][NextTournament]_vars

----------------------------------------------------------------------------
(* GeneticAlgorithm: evolve() with the offspring loop taken call by call   *)

\* The configuration of the optimizer whose offspring loop is followed call
\* by call: two individuals, one generation, one elite, tournaments of one
\* draw, crossover and mutation gated at 0.5, mutation noise up to 5.0
BreedingConfig ==
    [population_size |-> 2, max_generations |-> 1,
     crossover_rate |-> <<1, 2>>, mutation_rate |-> <<1, 2>>,
     mutation_strength |-> 5, elitism_rate |-> <<1, 2>>,
     tournament_size |-> 1]

\* State after GeneticAlgorithm(2, BreedingConfig)
InitBreeding ==
    /\ config = BreedingConfig
    /\ chromosome_length = 2
    /\ population = ConstructedPopulation(config, chromosome_length)
    /\ best_fitness = 0
    /\ best_individual = DefaultIndividual
    /\ fitness_function = Unbound
    /\ best_fitness_history = <<>>
    /\ avg_fitness_history = <<>>
    /\ pc = "idle"
    /\ gen = 0
    /\ offspring = <<>>
    /\ thrown = "none"
    /\ calls = 0
    /\ fitness_calls = 0
    /\ run_max = 0
    /\ prev_max = 0
    /\ MLPUntouched
    /\ TournamentUnobserved
    /\ BreedingUnobserved
    /\ DatasetUnused
    /\ DriverUnused

\* What the offspring loop leaves alone in the optimizer, but for pc and
\* the offspring buffer
LoopFrame ==
    UNCHANGED <<config, chromosome_length, population, best_fitness,
                best_individual, fitness_function, best_fitness_history,
                avg_fitness_history, gen, thrown, calls, fitness_calls,
                run_max, prev_max, mlp_vars, ts_vars, ds_vars, cv_vars>>

\* Selection: parent1 and parent2, one tournament each
Select ==
    /\ pc = "breeding"
    /\ gen < config.max_generations
    /\ Len(offspring) < config.population_size
    /\ \E p1 \in TournamentResults(population, config.tournament_size),
          p2 \in TournamentResults(population, config.tournament_size) :
            loop_parents' = <<p1, p2>>
    /\ pc' = "selected"
    /\ UNCHANGED <<offspring, loop_children, cx_draws, mut_draws>>
    /\ LoopFrame

\* Crossover: the gate is drawn once, the coins only when it fires
Crossover ==
    /\ pc = "selected"
    /\ \E gate \in GateOutcomes(config.crossover_rate) :
        \E swap \in IF gate THEN [1..chromosome_length -> BOOLEAN]
                     ELSE {[i \in 1..chromosome_length |-> FALSE]} :
            /\ loop_children' = crossover(loop_parents[1], loop_parents[2],
                                          gate, swap, chromosome_length)
            /\ cx_draws' = <<gate, IF gate THEN swap ELSE <<>> >>
    /\ pc' = "crossed"
    /\ UNCHANGED <<offspring, loop_parents, mut_draws>>
    /\ LoopFrame

\* The draws of one mutate call as they were made: no noise is drawn for a
\* gene whose gate did not fire
DrawsMade(draws) ==
    [i \in 1..Len(draws) |-> IF draws[i][1] THEN draws[i] ELSE <<FALSE>>]

\* A faulty mutation: child1 refers to the population member it was
\* selected from, so mutate(child1) writes that member too
MutateAliased ==
    /\ pc = "crossed"
    /\ \E d1 \in [1..chromosome_length -> MutationDraws(config)],
          d2 \in [1..chromosome_length -> MutationDraws(config)] :
            /\ loop_children' =
                  <<mutate(loop_children[1], d1, chromosome_length),
                    mutate(loop_children[2], d2, chromosome_length)>>
            /\ mut_draws' = <<DrawsMade(d1), DrawsMade(d2)>>
            /\ population' =
                  [i \in 1..Len(population) |->
                      IF population[i] = loop_parents[1]
                      THEN mutate(loop_children[1], d1, chromosome_length)
                      ELSE population[i]]
    /\ pc' = "mutated"
    /\ UNCHANGED <<offspring, loop_parents, cx_draws>>
    /\ UNCHANGED <<config, chromosome_length, best_fitness,
                   best_individual, fitness_function, best_fitness_history,
                   avg_fitness_history, gen, thrown, calls, fitness_calls,
                   run_max, prev_max, mlp_vars, ts_vars, ds_vars,
                   cv_vars>>

\* Mutation: mutate(child1), then mutate(child2)
Mutate ==
    /\ pc = "crossed"
    /\ \E d1 \in [1..chromosome_length -> MutationDraws(config)],
          d2 \in [1..chromosome_length -> MutationDraws(config)] :
            /\ loop_children' =
                  <<mutate(loop_children[1], d1, chromosome_length),
                    mutate(loop_children[2], d2, chromosome_length)>>
            /\ mut_draws' = <<DrawsMade(d1), DrawsMade(d2)>>
    /\ pc' = "mutated"
    /\ UNCHANGED <<offspring, loop_parents, cx_draws>>
    /\ LoopFrame

\* child1 is appended, child2 only while the buffer has room; the locals of
\* the iteration go out of scope
Push ==
    /\ pc = "mutated"
    /\ offspring' =
          IF Len(offspring) + 1 < config.population_size
          THEN offspring \o loop_children
          ELSE Append(offspring, loop_children[1])
    /\ loop_parents' = <<>>
    /\ loop_children' = <<>>
    /\ cx_draws' = <<>>
    /\ mut_draws' = <<>>
    /\ pc' = "breeding"
    /\ LoopFrame

NextBreeding ==
    \/ SetFitnessFunction /\ UNCHANGED <<mlp_vars, obs_vars>>
    \/ calls = 0 /\ EvolveThrows /\ UNCHANGED <<mlp_vars, obs_vars>>
    \/ calls = 0 /\ EvolveBegin /\ UNCHANGED <<mlp_vars, obs_vars>>
    \/ Select
    \/ Crossover
    \/ Mutate
    \/ Push
    \/ EvaluateOffspring /\ UNCHANGED <<mlp_vars, obs_vars>>
    \/ Replace /\ UNCHANGED <<mlp_vars, obs_vars>>
    \/ EvolveReturn /\ UNCHANGED <<mlp_vars, obs_vars>>

SpecBreeding == InitBreeding /\ [][NextBreeding]_vars

----------------------------------------------------------------------------
(* MLP: the state machine of a network object                              *)

\* MLP::MLP, lines 30-32: layer_outputs[i] sized to layers[i], all 0.0
ZeroOutputs(layers) ==
    [i \in 1..Len(layers) |-> [j \in 1..layers[i] |-> 0]]

\* State after MLP(layers, act_type)
MLPConstructed(layers, act_type) ==
    /\ layer_sizes = layers
    /\ activation_type = act_type
    /\ total_params = ParamCount(layers)
    /\ weights = ZeroWeights(layers)
    /\ biases = ZeroBiases(layers)
    /\ layer_outputs = ZeroOutputs(layers)
    /\ mlp_call = "MLP"
    /\ mlp_thrown = "none"
    /\ last_chromosome = <<>>
    /\ encoded = <<>>
    /\ last_args = <<>>
    /\ returned = <<>>

\* State after MLP(layers, SIGMOID), no fitness adapter bound to any data
InitMLP ==
    /\ \E layers \in Topologies : MLPConstructed(layers, "SIGMOID")
    /\ X_train = <<>>
    /\ y_train = <<>>

\* setWeights(chromosome): decodeChromosome
SetWeights ==
    \E chromosome \in Chromosomes(total_params) :
        \E r \in {decodeChromosome(weights, biases, chromosome, total_params)} :
            /\ weights' = r.weights
            /\ biases' = r.biases
            /\ mlp_thrown' = IF DecodeThrows(chromosome, total_params)
                             THEN "invalid_argument" ELSE "none"
            /\ mlp_call' = "setWeights"
            /\ last_chromosome' = chromosome
            /\ encoded' = <<>>
            /\ last_args' = <<>>
            /\ returned' = <<>>
            /\ UNCHANGED <<layer_sizes, total_params, activation_type,
                           layer_outputs, X_train, y_train>>

\* encodeChromosome(): const, returns the flat vector
EncodeChromosome ==
    /\ encoded' = encodeChromosome(weights, biases)
    /\ mlp_call' = "encodeChromosome"
    /\ mlp_thrown' = "none"
    /\ last_chromosome' = <<>>
    /\ last_args' = <<>>
    /\ returned' = <<>>
    /\ UNCHANGED <<layer_sizes, total_params, weights, biases,
                   activation_type, layer_outputs, X_train, y_train>>

\* forward(input)
Forward ==
    \E input \in Inputs(layer_sizes[1]) \cup WrongInputs(layer_sizes[1]) :
        \E after \in {forward(weights, biases, activation_type,
                            layer_outputs, input, layer_sizes)},
           throws \in {ForwardThrows(input, layer_sizes)} :
            /\ layer_outputs' = after
            /\ mlp_thrown' = IF throws THEN "invalid_argument" ELSE "none"
            /\ returned' = IF throws THEN <<>> ELSE after[Len(after)]
            /\ mlp_call' = "forward"
            /\ last_args' = <<input>>
            /\ last_chromosome' = <<>>
            /\ encoded' = <<>>
            /\ UNCHANGED <<layer_sizes, total_params, weights, biases,
                           activation_type, X_train, y_train>>

\* predict(input): forward, then the class of its output
Predict ==
    \E input \in Inputs(layer_sizes[1]) \cup WrongInputs(layer_sizes[1]) :
        \E after \in {forward(weights, biases, activation_type,
                            layer_outputs, input, layer_sizes)},
           throws \in {ForwardThrows(input, layer_sizes)} :
            /\ layer_outputs' = after
            /\ mlp_thrown' = IF throws THEN "invalid_argument" ELSE "none"
            /\ returned' = IF throws THEN <<>>
                           ELSE <<ClassOf(after[Len(after)])>>
            /\ mlp_call' = "predict"
            /\ last_args' = <<input>>
            /\ last_chromosome' = <<>>
            /\ encoded' = <<>>
            /\ UNCHANGED <<layer_sizes, total_params, weights, biases,
                           activation_type, X_train, y_train>>

\* evaluateAccuracy(X, y)
EvaluateAccuracy ==
    \E data \in EvalData(layer_sizes[1]) :
        \E r \in {evaluateAccuracy(weights, biases, activation_type,
                        layer_outputs, data[1], data[2], layer_sizes)} :
            /\ layer_outputs' = r.outputs
            /\ mlp_thrown' = IF r.thrown THEN "invalid_argument" ELSE "none"
            /\ returned' = r.value
            /\ mlp_call' = "evaluateAccuracy"
            /\ last_args' = data
            /\ last_chromosome' = <<>>
            /\ encoded' = <<>>
            /\ UNCHANGED <<layer_sizes, total_params, weights, biases,
                           activation_type, X_train, y_train>>

\* A call of the closure createMLPFitnessFunction(mlp, X_train, y_train)
\* returned, with a chromosome
FitnessCall ==
    \E chromosome \in Chromosomes(total_params) :
        \E r \in {createMLPFitnessFunction(weights, biases, activation_type,
                    layer_outputs, chromosome, total_params, layer_sizes,
                    X_train, y_train)} :
            /\ weights' = r.weights
            /\ biases' = r.biases
            /\ layer_outputs' = r.outputs
            /\ mlp_thrown' = IF r.thrown THEN "invalid_argument" ELSE "none"
            /\ returned' = r.value
            /\ mlp_call' = "fitness"
            /\ last_chromosome' = chromosome
            /\ last_args' = <<>>
            /\ encoded' = <<>>
            /\ UNCHANGED <<layer_sizes, total_params, activation_type,
                           X_train, y_train>>

\* State of the optimizer while the network alone is exercised: a
\* constructed optimizer that nothing touches
GAUntouched ==
    /\ config = [population_size |-> 1, max_generations |-> 0,
                 crossover_rate |-> <<0, 1>>, mutation_rate |-> <<0, 1>>,
                 mutation_strength |-> 1, elitism_rate |-> <<0, 1>>,
                 tournament_size |-> 1]
    /\ chromosome_length = 1
    /\ population = ConstructedPopulation(config, chromosome_length)
    /\ best_fitness = 0
    /\ best_individual = DefaultIndividual
    /\ fitness_function = Unbound
    /\ best_fitness_history = <<>>
    /\ avg_fitness_history = <<>>
    /\ pc = "idle"
    /\ gen = 0
    /\ offspring = <<>>
    /\ thrown = "none"
    /\ calls = 0
    /\ fitness_calls = 0
    /\ run_max = 0
    /\ prev_max = 0

InitCodec ==
    InitMLP /\ GAUntouched /\ TournamentUnobserved /\ BreedingUnobserved
        /\ DatasetUnused /\ DriverUnused

NextCodec ==
    \/ SetWeights /\ UNCHANGED <<ga_vars, obs_vars>>
    \/ EncodeChromosome /\ UNCHANGED <<ga_vars, obs_vars>>

SpecCodec == InitCodec /\ [][NextCodec]_vars

\* State after MLP(layers, act_type) and createMLPFitnessFunction(mlp,
\* X_train, y_train), the optimizer untouched
InitNet ==
    /\ \E c \in NetConfigs : MLPConstructed(c[1], c[2])
    /\ \E data \in TrainSets(layer_sizes[1]) :
            X_train = data[1] /\ y_train = data[2]
    /\ GAUntouched
    /\ TournamentUnobserved
    /\ BreedingUnobserved
    /\ DatasetUnused
    /\ DriverUnused

NextNet ==
    \/ SetWeights /\ UNCHANGED <<ga_vars, obs_vars>>
    \/ Forward /\ UNCHANGED <<ga_vars, obs_vars>>
    \/ Predict /\ UNCHANGED <<ga_vars, obs_vars>>
    \/ EvaluateAccuracy /\ UNCHANGED <<ga_vars, obs_vars>>
    \/ FitnessCall /\ UNCHANGED <<ga_vars, obs_vars>>

SpecNet == InitNet /\ [][NextNet]_vars

----------------------------------------------------------------------------
(* Dataset: the assignment of samples to folds and the split of a fold     *)

\* The data sets a Dataset may hold after loadFromFile: features and labels
\* are parallel, sample i has the one feature (i - 1) * 1.0, so that the
\* samples are told apart by their features
DataSets ==
    UNION {{[features |-> [i \in 1..n |-> <<(i - 1) * One>>], labels |-> l] :
                l \in [1..n -> Labels]} : n \in 1..MaxData}

\* The orders std::shuffle can leave the indices 0..n-1 in (kept here as
\* the sample numbers 1..n)
ShuffleResults(n) ==
    {p \in [1..n -> 1..n] : \A i, j \in 1..n : i # j => p[i] # p[j]}

\* fold_indices.resize(num_samples): entries kept, new entries 0
Resized(v, n) == [i \in 1..n |-> IF i <= Len(v) THEN v[i] ELSE 0]

\* A faulty assignment loop: fold_indices[indices[i]] = i / k
RECURSIVE AssignFoldsByDivision(_, _, _, _)
AssignFoldsByDivision(fi, indices, i, k) ==
    IF i >= Len(indices) THEN fi
    ELSE AssignFoldsByDivision([fi EXCEPT ![indices[i + 1]] = i \div k],
                               indices, i + 1, k)

\* The assignment loop of createKFolds: fold_indices[indices[i]] = i % k
\* for i = 0..num_samples-1
RECURSIVE AssignFolds(_, _, _, _)
AssignFolds(fi, indices, i, k) ==
    IF i >= Len(indices) THEN fi
    ELSE AssignFolds([fi EXCEPT ![indices[i + 1]] = i % k],
                     indices, i + 1, k)

\* createKFolds(k, seed), the shuffle of that seed having left indices
createKFolds(fi, n, indices, k) == AssignFolds(Resized(fi, n), indices, 0, k)

\* The four vectors of a split, cleared
ClearedSplit == [train_X |-> <<>>, train_y |-> <<>>,
                 test_X |-> <<>>, test_y |-> <<>>]

\* The loop of getTrainTestSplit from sample i on: a sample of the test
\* fold goes to the test vectors, any other to the training vectors
RECURSIVE SplitScan(_, _, _, _, _, _)
SplitScan(test_fold, feats, labs, folds, i, acc) ==
    IF i > Len(feats) THEN acc
    ELSE SplitScan(test_fold, feats, labs, folds, i + 1,
            IF folds[i] = test_fold
            THEN [acc EXCEPT !.test_X = Append(@, feats[i]),
                             !.test_y = Append(@, labs[i])]
            ELSE [acc EXCEPT !.train_X = Append(@, feats[i]),
                             !.train_y = Append(@, labs[i])])

\* getTrainTestSplit(test_fold, train_X, train_y, test_X, test_y)
getTrainTestSplit(test_fold, feats, labs, folds) ==
    SplitScan(test_fold, feats, labs, folds, 1, ClearedSplit)

\* State after Dataset() and a successful loadFromFile
InitFolds ==
    /\ \E d \in DataSets :
        /\ features = d.features
        /\ labels = d.labels
        /\ num_samples = Len(d.features)
    /\ fold_indices = <<>>
    /\ ds_call = [name |-> "loadFromFile", k |-> 0, test_fold |-> 0]
    /\ GAUntouched
    /\ MLPUntouched
    /\ TournamentUnobserved
    /\ BreedingUnobserved
    /\ DriverUnused

\* createKFolds(k, seed) with k >= 1
CreateKFolds ==
    /\ \E k \in 1..MaxFolds, indices \in ShuffleResults(num_samples) :
        /\ fold_indices' = createKFolds(fold_indices, num_samples, indices, k)
        /\ ds_call' = [name |-> "createKFolds", k |-> k, test_fold |-> 0]
    /\ UNCHANGED <<features, labels, num_samples, cv_vars>>

\* getTrainTestSplit(test_fold, ...) on a Dataset whose folds were created;
\* test_fold may name a fold that does not exist
GetTrainTestSplit ==
    /\ Len(fold_indices) = num_samples
    /\ \E test_fold \in 0..MaxFolds :
        \E r \in {getTrainTestSplit(test_fold, features, labels, fold_indices)} :
            /\ train_X' = r.train_X
            /\ train_y' = r.train_y
            /\ test_X' = r.test_X
            /\ test_y' = r.test_y
            /\ ds_call' = [name |-> "getTrainTestSplit", k |-> ds_call.k,
                           test_fold |-> test_fold]
    /\ UNCHANGED <<features, labels, num_samples, fold_indices, fold,
                   fold_pc, fold_results>>

NextFolds ==
    \/ CreateKFolds /\ UNCHANGED <<ga_vars, mlp_vars, ts_vars, br_vars>>
    \/ GetTrainTestSplit /\ UNCHANGED <<ga_vars, mlp_vars, ts_vars, br_vars>>

SpecFolds == InitFolds /\ [][NextFolds]_vars

----------------------------------------------------------------------------
(* runExperiment: the fold loop of the cross-validation driver             *)

\* The architecture of the driver's networks: one input, one output unit
Architecture == <<1, 1>>

\* The optimizer configurations of the driver: one individual bred for one
\* generation, and two individuals that are only initialised and evaluated
CVConfigs ==
    {c \in Configs :
        /\ c.crossover_rate = <<0, 1>>
        /\ c.mutation_rate = <<1, 2>>
        /\ c.elitism_rate = <<0, 1>>
        /\ c.tournament_size = 1
        /\ \/ c.population_size = 1 /\ c.max_generations = 1
           \/ c.population_size = 2 /\ c.max_generations = 0}

\* The data sets of the driver: three samples under two labellings
CVDataSets ==
    {d \in DataSets : /\ Len(d.features) = 3
                      /\ d.labels \in {<<0, 1, 0>>, <<1, 1, 0>>}}

\* State of main() before runExperiment: the Dataset is loaded and its
\* CVFolds folds are created; no network, no optimizer and no fold yet
InitCV ==
    /\ \E d \in CVDataSets :
        /\ features = d.features
        /\ labels = d.labels
        /\ num_samples = Len(d.features)
        /\ fold_indices \in
              {createKFolds(<<>>, Len(d.features), indices, CVFolds) :
                    indices \in ShuffleResults(Len(d.features))}
    /\ ds_call = [name |-> "createKFolds", k |-> CVFolds, test_fold |-> 0]
    /\ config \in CVConfigs
    /\ chromosome_length = ParamCount(Architecture)
    /\ population = ConstructedPopulation(config, chromosome_length)
    /\ best_fitness = 0
    /\ best_individual = DefaultIndividual
    /\ fitness_function = Unbound
    /\ best_fitness_history = <<>>
    /\ avg_fitness_history = <<>>
    /\ pc = "idle"
    /\ gen = 0
    /\ offspring = <<>>
    /\ thrown = "none"
    /\ calls = 0
    /\ fitness_calls = 0
    /\ run_max = 0
    /\ prev_max = 0
    /\ MLPConstructed(Architecture, "SIGMOID")
    /\ X_train = <<>>
    /\ y_train = <<>>
    /\ TournamentUnobserved
    /\ BreedingUnobserved
    /\ train_X = <<>>
    /\ train_y = <<>>
    /\ test_X = <<>>
    /\ test_y = <<>>
    /\ fold = 0
    /\ fold_pc = "start"
    /\ fold_results = <<>>

\* The head of the fold loop and of its body (part_001:461-471): the
\* split of the fold, a new network, a new optimizer, and the closure over
\* the network and the training partition bound as fitness function
BeginFold ==
    /\ fold_pc \in {"start", "recorded"}
    /\ \E f \in {IF fold_pc = "start" THEN 0 ELSE fold + 1} :
        /\ f < CVFolds
        /\ fold' = f
        /\ \E r \in {getTrainTestSplit(f, features, labels, fold_indices)} :
            /\ train_X' = r.train_X
            /\ train_y' = r.train_y
            /\ test_X' = r.test_X
            /\ test_y' = r.test_y
            /\ X_train' = r.train_X
            /\ y_train' = r.train_y
        /\ ds_call' = [name |-> "getTrainTestSplit", k |-> ds_call.k,
                       test_fold |-> f]
    /\ layer_sizes' = Architecture
    /\ activation_type' = "SIGMOID"
    /\ total_params' = ParamCount(Architecture)
    /\ weights' = ZeroWeights(Architecture)
    /\ biases' = ZeroBiases(Architecture)
    /\ layer_outputs' = ZeroOutputs(Architecture)
    /\ mlp_call' = "MLP"
    /\ mlp_thrown' = "none"
    /\ last_chromosome' = <<>>
    /\ encoded' = <<>>
    /\ last_args' = <<>>
    /\ returned' = <<>>
    /\ chromosome_length' = ParamCount(Architecture)
    /\ population' = ConstructedPopulation(config, ParamCount(Architecture))
    /\ best_fitness' = 0
    /\ best_individual' = DefaultIndividual
    /\ fitness_function' = Adapter
    /\ best_fitness_history' = <<>>
    /\ avg_fitness_history' = <<>>
    /\ pc' = "idle"
    /\ gen' = 0
    /\ offspring' = <<>>
    /\ thrown' = "none"
    /\ calls' = 0
    /\ fitness_calls' = 0
    /\ run_max' = 0
    /\ prev_max' = 0
    /\ fold_pc' = "evolve"
    /\ UNCHANGED <<config, features, labels, num_samples, fold_indices,
                   fold_results, ts_vars, br_vars>>

\* The network as an evaluation pass of the optimizer leaves it: the
\* closure ran last on chromosome
ClosureLeaves(chromosome) ==
    \E r \in {createMLPFitnessFunction(weights, biases, activation_type,
                layer_outputs, chromosome, total_params, layer_sizes,
                X_train, y_train)} :
        /\ weights' = r.weights
        /\ biases' = r.biases
        /\ layer_outputs' = r.outputs
        /\ mlp_thrown' = IF r.thrown THEN "invalid_argument" ELSE "none"
        /\ returned' = r.value
        /\ mlp_call' = "fitness"
        /\ last_chromosome' = chromosome
        /\ last_args' = <<>>
        /\ encoded' = <<>>
        /\ UNCHANGED <<layer_sizes, total_params, activation_type,
                       X_train, y_train>>

\* ga.evolve() (part_001:472), step by step; the evaluation passes call
\* the closure and so write the network
FoldEvolve ==
    /\ fold_pc = "evolve"
    /\ \/ /\ calls = 0
          /\ EvolveBegin
          /\ ClosureLeaves(population'[Len(population')].chromosome)
       \/ Breed /\ UNCHANGED mlp_vars
       \/ /\ EvaluateOffspring
          /\ ClosureLeaves(offspring[Len(offspring)].chromosome)
       \/ Replace /\ UNCHANGED mlp_vars
       \/ EvolveReturn /\ UNCHANGED mlp_vars
    /\ UNCHANGED obs_vars

\* mlp.setWeights(ga.getBestIndividual().chromosome) (part_001:474); the
\* exception of a chromosome of the wrong length leaves runExperiment
SetBestWeights ==
    /\ fold_pc = "evolve"
    /\ pc = "done"
    /\ \E r \in {decodeChromosome(weights, biases,
                    best_individual.chromosome, total_params)} :
        /\ weights' = r.weights
        /\ biases' = r.biases
    /\ mlp_thrown' = IF DecodeThrows(best_individual.chromosome, total_params)
                     THEN "invalid_argument" ELSE "none"
    /\ fold_pc' = IF DecodeThrows(best_individual.chromosome, total_params)
                  THEN "aborted" ELSE "measure"
    /\ mlp_call' = "setWeights"
    /\ last_chromosome' = best_individual.chromosome
    /\ encoded' = <<>>
    /\ last_args' = <<>>
    /\ returned' = <<>>
    /\ UNCHANGED <<layer_sizes, total_params, activation_type,
                   layer_outputs, X_train, y_train>>
    /\ UNCHANGED <<ga_vars, ts_vars, br_vars, ds_vars, train_X, train_y,
                   test_X, test_y, fold, fold_results>>

\* The rest of the body (part_001:476-499): the two accuracies, the
\* predictions for the metrics, and the FoldResult appended
RecordFold ==
    /\ fold_pc = "measure"
    /\ \E tr \in {evaluateAccuracy(weights, biases, activation_type,
                    layer_outputs, train_X, train_y, layer_sizes)} :
        \E te \in {evaluateAccuracy(weights, biases, activation_type,
                        tr.outputs, test_X, test_y, layer_sizes)} :
            /\ fold_results' = Append(fold_results,
                    [fold_number |-> fold + 1,
                     train_accuracy |-> tr.value,
                     test_accuracy |-> te.value,
                     generations_used |-> config.max_generations,
                     best_fitness |-> best_fitness])
            /\ layer_outputs' = te.outputs
            /\ returned' = te.value
    /\ mlp_call' = "predict"
    /\ mlp_thrown' = "none"
    /\ last_chromosome' = <<>>
    /\ encoded' = <<>>
    /\ last_args' = <<>>
    /\ fold_pc' = "recorded"
    /\ UNCHANGED <<layer_sizes, total_params, weights, biases,
                   activation_type, X_train, y_train>>
    /\ UNCHANGED <<ga_vars, ts_vars, br_vars, ds_vars, train_X, train_y,
                   test_X, test_y, fold>>

\* The fold loop ends (part_001:502-504)
FinishExperiment ==
    /\ fold_pc = "recorded"
    /\ fold + 1 >= CVFolds
    /\ fold_pc' = "finished"
    /\ UNCHANGED <<ga_vars, mlp_vars, ts_vars, br_vars, ds_vars, train_X,
                   train_y, test_X, test_y, fold, fold_results>>

NextCV ==
    \/ BeginFold
    \/ FoldEvolve
    \/ SetBestWeights
    \/ RecordFold
    \/ FinishExperiment

SpecCV == InitCV /\ [][NextCV]_vars

----------------------------------------------------------------------------
(* Properties of the optimizer, checked under Spec                         *)

\* The states right after an evaluation pass: after the initial pass
\* (evaluateFitness) and after a generation's offspring pass
AfterEvaluationPass ==
    \/ pc = "evaluated"
    \/ pc = "breeding" /\ gen = 0 /\ offspring = <<>>

\* C1: after every evaluation pass the recorded best-ever fitness is at
\* least the fitness of every individual evaluated so far in the run, and
\* the best-ever individual carries that fitness.
C1_BestTracksEveryPass ==
    AfterEvaluationPass =>
        /\ best_fitness >= run_max
        /\ best_individual.fitness = best_fitness

\* C2: the best-ever fitness never decreases, the best-ever individual is
\* replaced only together with a strictly greater best-ever fitness, and
\* best_fitness_history is non-decreasing.
C2_BestNeverDecreases ==
    [][/\ best_fitness' >= best_fitness
       /\ best_individual' # best_individual => best_fitness' > best_fitness
       /\ \A g, h \in 1..Len(best_fitness_history') :
            g < h => best_fitness_history'[g] <= best_fitness_history'[h]]_vars

\* Witness of C2: a second run has raised the recorded best, so the history
\* holds a smaller entry before a greater one
C2_Witness ==
    /\ calls = 2
    /\ \E g, h \in 1..Len(best_fitness_history) :
        g < h /\ best_fitness_history[g] < best_fitness_history[h]

\* C3: whenever a call of evolve() has completed, both histories have
\* exactly max_generations entries.
C3_HistoryLengthIsMaxGenerations ==
    pc = "done" =>
        /\ Len(best_fitness_history) = config.max_generations
        /\ Len(avg_fitness_history) = config.max_generations

\* C4: the population always holds exactly population_size individuals,
\* and the offspring buffer is filled to exactly population_size, never
\* beyond it.
C4_PopulationSizeFixed ==
    /\ Len(population) = config.population_size
    /\ Len(offspring) <= config.population_size
    /\ pc = "evaluated" => Len(offspring) = config.population_size

\* Witness of C4: an odd population after a replacement that mixed elites
\* and offspring, the second child of the last pair having been dropped
C4_Witness ==
    /\ config.population_size % 2 = 1
    /\ gen >= 1
    /\ pc = "evaluated"
    /\ Len(offspring) = config.population_size

\* Steps evolve() still has to take: per generation the offspring loop,
\* the evaluation pass and the replacement, then the return
Remaining ==
    IF pc \in {"breeding", "evaluated"}
    THEN (config.max_generations - gen) * (config.population_size + 2)
         - (IF pc = "evaluated" THEN config.population_size
            ELSE Len(offspring) - 1)
    ELSE 0

\* A step of a running evolve() decreases Remaining
EvolveStepDecreases ==
    pc \in {"breeding", "evaluated"} => (Remaining' < Remaining)

\* C5: evolve() with a bound fitness function terminates after exactly
\* max_generations generations, whatever fitness is reached: it can always
\* take a step while it runs, every step brings it closer to the return,
\* and it returns with gen = max_generations and the fitness function
\* called population_size * (max_generations + 1) times.
C5_RunsExactlyMaxGenerations ==
    /\ [](/\ gen <= config.max_generations
          /\ Remaining >= 0
          /\ pc \in {"breeding", "evaluated"} =>
                ENABLED (Breed \/ EvaluateOffspring \/ Replace \/ EvolveReturn)
          /\ pc = "done" =>
                /\ gen = config.max_generations
                /\ fitness_calls =
                      config.population_size * (config.max_generations + 1))
    /\ [][EvolveStepDecreases]_vars

\* Witness of C5: a run of several generations that found an individual of
\* fitness 1.0 before its last generation and still ran to the end
C5_Witness ==
    /\ pc = "done"
    /\ config.max_generations >= 2
    /\ run_max = MaxFit
    /\ Len(avg_fitness_history) >= 2
    /\ avg_fitness_history[1][1] >= MaxFit

\* C6: evolve() without a bound fitness function throws and changes
\* nothing: population, best-ever individual and fitness, both histories
\* and the count of fitness evaluations stay as they were.
C6_UnboundEvolveChangesNothing ==
    [][(fitness_function = Unbound /\ calls' # calls) =>
        /\ thrown' = "runtime_error"
        /\ pc' = pc
        /\ UNCHANGED <<population, best_fitness, best_individual,
                       best_fitness_history, avg_fitness_history,
                       fitness_calls, gen, offspring>>]_vars

\* Witness of C6: evolve() has been called without a fitness function
C6_Witness ==
    /\ thrown = "runtime_error"
    /\ fitness_function = Unbound
    /\ calls >= 1

\* C7: after every replacement the population's maximum fitness is at
\* least the maximum it held before that replacement, for every
\* population_size and elitism_rate.
C7_MaxNeverDegrades ==
    gen >= 1 => MaxFitnessOf(population) >= prev_max

\* C7 as amended: the same, for configurations that carry at least one
\* elite over, floor(population_size * elitism_rate) >= 1.
C7_MaxNeverDegradesWithElite ==
    (gen >= 1 /\ ScaleByRate(config.population_size, config.elitism_rate) >= 1)
        => MaxFitnessOf(population) >= prev_max

\* Witness of C7 as amended: one elite kept next to an offspring that is
\* worse than it
C7_Witness ==
    /\ gen >= 1
    /\ pc = "breeding"
    /\ ScaleByRate(config.population_size, config.elitism_rate) = 1
    /\ config.population_size = 2
    /\ prev_max > 0
    /\ population[1].fitness = prev_max
    /\ population[2].fitness < prev_max

----------------------------------------------------------------------------
(* Properties of the codec, checked under SpecCodec                        *)

\* C8: encodeChromosome() after setWeights(g) returns exactly g, and
\* setWeights(encodeChromosome()) leaves every weight and bias unchanged.
C8_CodecRoundTrip ==
    /\ (mlp_call = "setWeights" /\ mlp_thrown = "none") =>
            encodeChromosome(weights, biases) = last_chromosome
    /\ ~DecodeThrows(encodeChromosome(weights, biases), total_params)
    /\ decodeChromosome(weights, biases,
                        encodeChromosome(weights, biases), total_params)
            = [weights |-> weights, biases |-> biases]

\* Witness of C8: a three-layer network holding a chromosome with unequal
\* genes that setWeights has just decoded
C8_Witness ==
    /\ mlp_call = "setWeights"
    /\ mlp_thrown = "none"
    /\ Len(layer_sizes) = 3
    /\ \E i, j \in 1..Len(last_chromosome) : last_chromosome[i] # last_chromosome[j]

\* C9: setWeights with a chromosome of a length other than total_params
\* throws and leaves every weight and bias as before the call.
C9_WrongLengthRejected ==
    [][(mlp_call' = "setWeights" /\ Len(last_chromosome') # total_params) =>
        /\ mlp_thrown' = "invalid_argument"
        /\ weights' = weights
        /\ biases' = biases]_vars

\* Witness of C9: a chromosome one gene too long, filled with ones, was
\* rejected by a network that holds both a -1.0 and a 1.0
C9_Witness ==
    /\ mlp_call = "setWeights"
    /\ mlp_thrown = "invalid_argument"
    /\ Len(last_chromosome) = total_params + 1
    /\ last_chromosome[1] = 1
    /\ \E p, q \in 1..total_params :
        /\ encodeChromosome(weights, biases)[p] = -1
        /\ encodeChromosome(weights, biases)[q] = 1

\* P = sum over the transitions i of n_i * n_{i+1} + n_{i+1}, up to
\* transition k
RECURSIVE ParamsUpTo(_, _)
ParamsUpTo(n, k) ==
    IF k = 0 THEN 0
    ELSE ParamsUpTo(n, k - 1) + n[k] * n[k + 1] + n[k + 1]

\* C10: getChromosomeLength() and the length of encodeChromosome() equal
\* P, and the chromosome holds weight (i, src, dst) at
\* offset_i + src * n_{i+1} + dst and bias (i, dst) at
\* offset_i + n_i * n_{i+1} + dst (layers, neurons and offsets from 0).
C10_CanonicalLayout ==
    LET n == layer_sizes
        e == encodeChromosome(weights, biases)
    IN  /\ total_params = ParamsUpTo(n, Len(n) - 1)
        /\ Len(e) = total_params
        /\ mlp_call = "encodeChromosome" => encoded = e
        /\ \A i \in 1..(Len(n) - 1) :
            /\ \A src \in 1..n[i], dst \in 1..n[i + 1] :
                e[ParamsUpTo(n, i - 1) + (src - 1) * n[i + 1] + (dst - 1) + 1]
                    = weights[i][src][dst]
            /\ \A dst \in 1..n[i + 1] :
                e[ParamsUpTo(n, i - 1) + n[i] * n[i + 1] + (dst - 1) + 1]
                    = biases[i][dst]

\* Witness of C10: an encoded network with a 2 x 2 weight matrix whose
\* off-diagonal entries differ
C10_Witness ==
    /\ mlp_call = "encodeChromosome"
    /\ layer_sizes[1] = 2
    /\ layer_sizes[2] = 2
    /\ weights[1][1][2] # weights[1][2][1]

----------------------------------------------------------------------------
(* Properties of the network's forward pass, checked under SpecNet         *)

\* What predict returns for the input x on a network that holds the
\* parameters ws, bs and has made no call before
FreshPrediction(ws, bs, x) ==
    LET after == forward(ws, bs, activation_type, ZeroOutputs(layer_sizes),
                         x, layer_sizes)
    IN  ClassOf(after[Len(after)])

\* The number of samples of X whose fresh prediction equals the label in y
CorrectCount(ws, bs, X, y) ==
    Cardinality({i \in 1..Len(X) : FreshPrediction(ws, bs, X[i]) = y[i]})

\* C12: a call of the fitness closure with a genome g of length P returns
\* the accuracy on the bound training set of the network whose parameters
\* are g, whatever parameters and activations the network held before, and
\* leaves the network's parameters equal to g.
C12_FitnessIsTrainingAccuracy ==
    (mlp_call = "fitness" /\ Len(last_chromosome) = total_params) =>
        LET g == DecodeLayers(ZeroWeights(layer_sizes), ZeroBiases(layer_sizes),
                              last_chromosome, 0)
        IN  /\ mlp_thrown = "none"
            /\ returned = <<CorrectCount(g.weights, g.biases, X_train, y_train),
                            Len(X_train)>>
            /\ encodeChromosome(weights, biases) = last_chromosome

\* Witness of C12: the closure returned 0.5 on a network with a hidden
\* layer for a genome holding both a -1.0 and a 1.0
C12_Witness ==
    /\ mlp_call = "fitness"
    /\ mlp_thrown = "none"
    /\ Len(layer_sizes) = 3
    /\ returned = <<1, 2>>
    /\ \E p, q \in 1..total_params :
        last_chromosome[p] = -1 /\ last_chromosome[q] = 1

\* C13: forward with an input of length n0 returns the last layer's
\* activations, a vector of the output layer's width, where the first
\* layer holds the input and each neuron of each later layer holds
\* activation(bias + dot(previous layer, incoming weights)): the configured
\* activation on every hidden layer, the logistic sigmoid on the last layer
\* whatever activation is configured.
C13_ForwardLayerByLayer ==
    (mlp_call = "forward" /\ mlp_thrown = "none") =>
        LET L == Len(layer_sizes)
        IN  /\ Len(returned) = layer_sizes[L]
            /\ returned = layer_outputs[L]
            /\ layer_outputs[1] = last_args[1]
            /\ \A l \in 1..(L - 1) : \A j \in 1..layer_sizes[l + 1] :
                LET sum == biases[l][j] * One
                           + SumSeq([i \in 1..layer_sizes[l] |->
                                layer_outputs[l][i] * weights[l][i][j]])
                IN  layer_outputs[l + 1][j] =
                        IF l = L - 1 THEN sigmoid(sum)
                        ELSE activate(sum, activation_type)

\* Witness of C13: forward on a ReLU network with a hidden layer, whose
\* hidden activation is 2.0 and whose output is below 0.5 and above 0
C13_Witness ==
    /\ mlp_call = "forward"
    /\ mlp_thrown = "none"
    /\ activation_type = "RELU"
    /\ Len(layer_sizes) = 3
    /\ layer_outputs[2][1] = 2 * One
    /\ returned[1] < Half
    /\ returned[1] > 0

\* C14: forward and predict with an input whose length is not n0, and
\* evaluateAccuracy with X and y of different lengths, throw and leave
\* weights, biases and layer_outputs as they were before the call.
C14_SizeMismatchRejected ==
    [][(\/ /\ mlp_call' \in {"forward", "predict"}
           /\ Len(last_args'[1]) # layer_sizes[1]
        \/ /\ mlp_call' = "evaluateAccuracy"
           /\ Len(last_args'[1]) # Len(last_args'[2]))
       => /\ mlp_thrown' = "invalid_argument"
          /\ weights' = weights
          /\ biases' = biases
          /\ layer_outputs' = layer_outputs]_vars

\* Witness of C14: evaluateAccuracy has rejected X and y of different
\* lengths on a network that holds decoded parameters and the activations
\* of an earlier forward pass
C14_Witness ==
    /\ mlp_call = "evaluateAccuracy"
    /\ mlp_thrown = "invalid_argument"
    /\ Len(last_args[1]) # Len(last_args[2])
    /\ weights # ZeroWeights(layer_sizes)
    /\ layer_outputs # ZeroOutputs(layer_sizes)

\* C15: on a network with one output unit predict returns 1 when the
\* forward output is at least 0.5 and 0 otherwise; an output of exactly
\* 0.5 gives 1.
C15_ThresholdInclusive ==
    (/\ mlp_call = "predict"
     /\ mlp_thrown = "none"
     /\ layer_sizes[Len(layer_sizes)] = 1) =>
        /\ returned \in {<<0>>, <<1>>}
        /\ returned = <<1>> <=> layer_outputs[Len(layer_sizes)][1] >= Half

\* Witness of C15: predict returned 1 for an output of exactly 0.5 that a
\* weight of -1.0 and a bias of 1.0 produce from the input 1.0
C15_Witness ==
    /\ mlp_call = "predict"
    /\ mlp_thrown = "none"
    /\ layer_sizes = <<1, 1>>
    /\ weights[1][1][1] = -1
    /\ biases[1][1] = 1
    /\ layer_outputs[2][1] = Half
    /\ returned = <<1>>

C17_AccuracyIsFractionCorrect ==
    (/\ mlp_call = "evaluateAccuracy"
     /\ mlp_thrown = "none"
     /\ last_args[1] # <<>>) =>
        /\ returned = <<CorrectCount(weights, biases, last_args[1], last_args[2]),
                        Len(last_args[1])>>
        /\ 0 <= returned[1]
        /\ returned[1] <= returned[2]

\* Witness of C17: 3 correct predictions out of 4 samples on decoded
\* parameters, returned as 3/4
C17_Witness ==
    /\ mlp_call = "evaluateAccuracy"
    /\ mlp_thrown = "none"
    /\ weights # ZeroWeights(layer_sizes)
    /\ returned = <<3, 4>>

----------------------------------------------------------------------------
(* Properties of breeding and replacement                                  *)

\* The genomes held by a sequence of individuals
Genomes(s) == {s[i].chromosome : i \in 1..Len(s)}

\* sel lists, best first, as many of the fittest individuals of src as it
\* is long: its entries are distinct entries of src, and no entry of src
\* left out is fitter than an entry of sel
IsFittestOf(sel, src) ==
    /\ Len(sel) <= Len(src)
    /\ \A i \in 1..(Len(sel) - 1) : sel[i].fitness >= sel[i + 1].fitness
    /\ \E at \in [1..Len(sel) -> 1..Len(src)] :
        /\ \A i, j \in 1..Len(sel) : i # j => at[i] # at[j]
        /\ \A i \in 1..Len(sel) : sel[i] = src[at[i]]
        /\ \A j \in 1..Len(src) :
            (\A i \in 1..Len(sel) : at[i] # j) =>
                \A i \in 1..Len(sel) : src[j].fitness <= sel[i].fitness

\* C18: with crossover_rate 0 and mutation_rate 0 every genome of the
\* offspring and of the next population is a genome of the population bred
\* from; with 4 individuals, one generation, elitism_rate 0.5 and
\* tournaments of one draw the next generation is the 2 fittest initial
\* individuals followed by the 2 fittest offspring, each offspring an
\* unmodified copy of an individual of the initial population.
C18_NoVariationKeepsGenomes ==
    [][(/\ config.crossover_rate[1] = 0
        /\ config.mutation_rate[1] = 0
        /\ pc \in {"breeding", "evaluated"}) =>
            /\ Genomes(offspring') \cup Genomes(population')
                    \subseteq Genomes(population)
            /\ (config = ScenarioConfig /\ pc = "evaluated") =>
                /\ Len(population') = 4
                /\ IsFittestOf(SubSeq(population', 1, 2), population)
                /\ IsFittestOf(SubSeq(population', 3, 4), offspring)
                /\ \A i \in 1..Len(offspring) :
                    \E j \in 1..Len(population) : offspring[i] = population[j]
      ]_vars

\* Witness of C18: the generation of the scenario is over; the elites and
\* the offspring kept each hold a fitter and a less fit individual, and
\* the less fit ones differ in their genome
C18_Witness ==
    /\ config = ScenarioConfig
    /\ pc = "breeding"
    /\ gen = 1
    /\ population[1].fitness > population[2].fitness
    /\ population[3].fitness > population[4].fitness
    /\ population[2].chromosome # population[4].chromosome

\* C19: with e = floor(population_size * elitism_rate) the population
\* after replacePopulation is the e fittest individuals of the previous
\* population, genome and fitness unchanged, followed by the
\* population_size - e fittest offspring.
C19_ElitistReplacement ==
    [][pc = "evaluated" =>
        LET N == config.population_size
            e == (N * config.elitism_rate[1]) \div config.elitism_rate[2]
        IN  /\ Len(population') = N
            /\ IsFittestOf(SubSeq(population', 1, e), population)
            /\ IsFittestOf(SubSeq(population', e + 1, N), offspring)]_vars

\* Witness of C19: of two individuals one elite was carried over and is
\* followed by an offspring that is fitter than the elite
C19_Witness ==
    /\ pc = "breeding"
    /\ gen >= 1
    /\ config.population_size = 2
    /\ config.elitism_rate = <<1, 2>>
    /\ population[1].fitness < population[2].fitness

----------------------------------------------------------------------------
(* Properties of tournament selection, checked under SpecTournament        *)

\* C20: tournamentSelection returns a copy of the drawn individual with
\* the highest fitness among its draws, the earliest such draw on a tie,
\* for any evaluated fitness values; what it returns is an individual of
\* the current population, with a genome of chromosome_length genes.
C20_TournamentReturnsBestDrawn ==
    drawn # <<>> =>
        LET best == CHOOSE i \in 1..Len(drawn) :
                /\ \A j \in 1..Len(drawn) :
                    population[drawn[j]].fitness <= population[drawn[i]].fitness
                /\ \A j \in 1..(i - 1) :
                    population[drawn[j]].fitness < population[drawn[i]].fitness
        IN  /\ selected = population[drawn[best]]
            /\ \E m \in 1..Len(population) : selected = population[m]
            /\ Len(selected.chromosome) = chromosome_length

----------------------------------------------------------------------------
(* Properties of crossover and mutation, checked under SpecBreeding        *)

\* C21: crossover is gated once per parent pair: when the gate does not
\* fire the children are exact copies of the parents; when it fires, at
\* every gene index the pair of the children's genes is the pair of the
\* parents' genes, in this order or exchanged; both children have
\* chromosome_length genes.
C21_CrossoverGatedPerPair ==
    pc = "crossed" =>
        LET p1 == loop_parents[1]
            p2 == loop_parents[2]
            c1 == loop_children[1]
            c2 == loop_children[2]
        IN  /\ Len(c1.chromosome) = chromosome_length
            /\ Len(c2.chromosome) = chromosome_length
            /\ ~cx_draws[1] => (c1 = p1 /\ c2 = p2)
            /\ cx_draws[1] =>
                \A i \in 1..chromosome_length :
                    <<c1.chromosome[i], c2.chromosome[i]>> \in
                        {<<p1.chromosome[i], p2.chromosome[i]>>,
                         <<p2.chromosome[i], p1.chromosome[i]>>}

\* Witness of C21: the gate fired on parents that differ in both genes;
\* the first gene was exchanged and the second was not
C21_Witness ==
    /\ pc = "crossed"
    /\ cx_draws[1]
    /\ loop_parents[1].chromosome[1] # loop_parents[2].chromosome[1]
    /\ loop_parents[1].chromosome[2] # loop_parents[2].chromosome[2]
    /\ loop_children[1].chromosome[1] = loop_parents[2].chromosome[1]
    /\ loop_children[2].chromosome[1] = loop_parents[1].chromosome[1]
    /\ loop_children[1].chromosome[2] = loop_parents[1].chromosome[2]
    /\ loop_children[2].chromosome[2] = loop_parents[2].chromosome[2]

\* What mutate made of the genome old, given the draws made for it: a gene
\* that was selected is old + noise brought back into [-5, 5], the noise
\* within the mutation strength; a gene that was not selected is as before
MutatedFrom(new, old, made) ==
    /\ Len(new) = Len(old)
    /\ \A i \in 1..Len(old) :
            IF made[i][1]
            THEN /\ made[i][2] >= -config.mutation_strength
                 /\ made[i][2] <= config.mutation_strength
                 /\ new[i] = (IF old[i] + made[i][2] > 5 THEN 5
                              ELSE IF old[i] + made[i][2] < -5 THEN -5
                              ELSE old[i] + made[i][2])
            ELSE new[i] = old[i]

----------------------------------------------------------------------------
(* Properties of the evaluation of offspring, checked under Spec           *)

\* Every individual of s carries the fitness of its own genome
Evaluated(s) ==
    \A i \in 1..Len(s) :
        s[i].fitness = FitnessValue(fitness_function, s[i].chromosome)

\* C23: every offspring is evaluated before replacement: when
\* replacePopulation ranks the individuals, and at the end of every
\* generation, each individual's stored fitness is the fitness function
\* applied to its own genome.
C23_OffspringEvaluatedBeforeReplacement ==
    /\ pc = "evaluated" => (Evaluated(offspring) /\ Evaluated(population))
    /\ (pc = "breeding" /\ offspring = <<>>) => Evaluated(population)

\* Witness of C23: replacePopulation is about to rank an offspring whose
\* genome and fitness are those of no individual of the population it was
\* bred from
C23_Witness ==
    /\ pc = "evaluated"
    /\ \E i \in 1..Len(offspring) :
        \A j \in 1..Len(population) :
            /\ offspring[i].chromosome # population[j].chromosome
            /\ offspring[i].fitness # population[j].fitness

----------------------------------------------------------------------------
(* Properties of the individuals an optimizer holds, checked under Spec    *)

\* The fitness values an evaluated individual can carry in the domain
\* [0, 1]
ValidScores == 0..MaxFit

\* C24: an individual whose fitness has not been evaluated yet carries a
\* fitness that no evaluated individual can have in [0, 1]: the members of
\* a population no fitness function was ever called on, and a best-ever
\* individual that was never assigned, hold a value outside the valid
\* scores.
C24_UnevaluatedCarriesSentinel ==
    /\ fitness_calls = 0 =>
            \A i \in 1..Len(population) :
                population[i].fitness \notin ValidScores
    /\ best_individual.chromosome = <<>> =>
            best_individual.fitness \notin ValidScores

----------------------------------------------------------------------------
(* Frame of offspring generation, checked under SpecBreeding               *)

\* C25: selection, crossover, mutation, the filling of the offspring
\* buffer and the evaluation of the offspring leave the population, and
\* the best-ever individual and fitness, as they are; inside evolve() the
\* population changes only when it is initialised and in the replacement
\* step.
C25_BreedingLeavesPopulation ==
    [][/\ pc \in {"breeding", "selected", "crossed", "mutated"} =>
            /\ population' = population
            /\ best_individual' = best_individual
            /\ best_fitness' = best_fitness
       /\ population' # population =>
            \/ pc = "evaluated"
            \/ pc \in {"idle", "done"} /\ pc' = "breeding"]_vars

\* Witness of C25: child1, a copy of parent1, came out of mutation with
\* another genome, and parent1 is both a member of the population and the
\* individual the best-ever individual was copied from
C25_Witness ==
    /\ pc = "mutated"
    /\ ~cx_draws[1]
    /\ loop_children[1].chromosome # loop_parents[1].chromosome
    /\ \E i \in 1..Len(population) : population[i] = loop_parents[1]
    /\ best_individual = loop_parents[1]

\* C26: after evolve() has completed with a fitness function whose values
\* lie in [0, 1], getBestIndividual() is a well-formed evaluated
\* individual: its genome has chromosome_length genes and its fitness is
\* getBestFitness().
C26_BestIndividualWellFormed ==
    (pc = "done" /\ fitness_function \in FitnessFunctions) =>
        /\ Len(best_individual.chromosome) = chromosome_length
        /\ best_individual.fitness = best_fitness

\* C27: at the end of every generation the reported best-ever fitness is
\* at least the largest fitness in the population, and every entry of
\* best_fitness_history is at least the same generation's entry of
\* avg_fitness_history (a total over a size).
C27_BestBoundsPopulation ==
    /\ (pc = "breeding" /\ gen >= 1 /\ offspring = <<>>) =>
            best_fitness >= MaxFitnessOf(population)
    /\ \A g \in 1..Len(best_fitness_history) :
            best_fitness_history[g] * avg_fitness_history[g][2]
                >= avg_fitness_history[g][1]

----------------------------------------------------------------------------
(* The range of the genes, checked under SpecBreeding                      *)

\* Every gene of every individual of s lies in [-5, 5]
GenesInRange(s) ==
    \A i \in 1..Len(s) :
        \A j \in 1..Len(s[i].chromosome) :
            s[i].chromosome[j] >= -5 /\ s[i].chromosome[j] <= 5

\* C28: in every state of evolve() with mutation_strength > 0, every gene
\* of every individual in the population, in the offspring buffer, among
\* the parents and children at hand and in the best-ever individual lies
\* in [-5, 5].
C28_GenesStayInRange ==
    config.mutation_strength > 0 =>
        /\ GenesInRange(population)
        /\ GenesInRange(offspring)
        /\ GenesInRange(loop_parents)
        /\ GenesInRange(loop_children)
        /\ GenesInRange(<<best_individual>>)

\* Witness of C28: evolve() has returned with a population in which one
\* individual holds a gene at the upper end of the range and a gene at
\* the lower end
C28_Witness ==
    /\ pc = "done"
    /\ config.mutation_strength = 5
    /\ \E i \in 1..Len(population) :
        /\ population[i].chromosome[1] = 5
        /\ population[i].chromosome[2] = -5

----------------------------------------------------------------------------
(* Properties of the folds, checked under SpecFolds                        *)

\* The samples (features with their label) two parallel vectors hold
SamplePairs(X, y) == {<<X[i], y[i]>> : i \in 1..Len(X)}

\* The number of samples assigned to fold f
FoldSize(f) == Cardinality({i \in 1..num_samples : fold_indices[i] = f})

\* C30: after createKFolds(k, seed) with k >= 1 every sample is assigned
\* to one fold of 0..k-1 and the fold sizes differ by at most one; the
\* train and test sets of getTrainTestSplit are disjoint, hold every
\* sample exactly once with its own label at the same position, and over
\* test_fold = 0..k-1 every sample is in the test set exactly once.
C30_FoldsPartitionSamples ==
    /\ ds_call.name \in {"createKFolds", "getTrainTestSplit"} =>
        /\ Len(fold_indices) = num_samples
        /\ \A i \in 1..num_samples : fold_indices[i] \in 0..(ds_call.k - 1)
        /\ \A a, b \in 0..(ds_call.k - 1) : FoldSize(a) - FoldSize(b) <= 1
        /\ \A i \in 1..num_samples :
            Cardinality({f \in 0..(ds_call.k - 1) :
                <<features[i], labels[i]>> \in
                    LET r == getTrainTestSplit(f, features, labels, fold_indices)
                    IN  SamplePairs(r.test_X, r.test_y)}) = 1
    /\ ds_call.name = "getTrainTestSplit" =>
        /\ Len(train_X) = Len(train_y)
        /\ Len(test_X) = Len(test_y)
        /\ Len(train_X) + Len(test_X) = num_samples
        /\ SamplePairs(train_X, train_y) \cap SamplePairs(test_X, test_y) = {}
        /\ SamplePairs(train_X, train_y) \cup SamplePairs(test_X, test_y)
                = SamplePairs(features, labels)

\* Witness of C30: four samples in three folds, shuffled so that the first
\* sample is not in fold 0; the split of the fold of two samples has two
\* test samples with different labels and two training samples
C30_Witness ==
    /\ ds_call.name = "getTrainTestSplit"
    /\ ds_call.k = 3
    /\ num_samples = 4
    /\ fold_indices[1] # 0
    /\ Len(test_X) = 2
    /\ Len(train_X) = 2
    /\ test_y = <<0, 1>>

----------------------------------------------------------------------------
(* Properties of the cross-validation driver, checked under SpecCV         *)

\* The state at the head of a fold's evolve(): network and optimizer are
\* as their constructors leave them
FreshPair ==
    /\ weights = ZeroWeights(layer_sizes)
    /\ biases = ZeroBiases(layer_sizes)
    /\ population = ConstructedPopulation(config, total_params)
    /\ best_fitness = 0
    /\ best_individual = DefaultIndividual
    /\ best_fitness_history = <<>>
    /\ avg_fitness_history = <<>>

\* C29: in every fold the metrics are computed with the network holding
\* the optimizer's best-ever genome, so that no fold ends without its
\* metrics and every recorded train_accuracy equals the recorded
\* best_fitness; every fold starts from a fresh network and optimizer.
C29_FoldMetricsOfBestGenome ==
    /\ fold_pc # "aborted"
    /\ fold_pc \in {"measure", "recorded"} =>
            encodeChromosome(weights, biases) = best_individual.chromosome
    /\ \A i \in 1..Len(fold_results) :
            FitnessOfAccuracy(fold_results[i].train_accuracy)
                = fold_results[i].best_fitness
    /\ (fold_pc = "evolve" /\ pc = "idle") => FreshPair

====
